---- MODULE Spec2Model ----
(***************************************************************************)
(* Model of the tracing subsystem in src/src/tracer.cc: the TraceManager   *)
(* policy store (global_default_, global_setting_, model_settings_,        *)
(* fallback_used_models_, trace_files_), the per-policy sampler            *)
(* (TraceSetting::SampleTrace) and the readers that resolve a policy.      *)
(*                                                                         *)
(* Objects held through std::shared_ptr live in two heaps, `heap` for      *)
(* TraceSetting and `files` for TraceFile, addressed by small integers.    *)
(* An object leaves its heap when nothing references it any more.          *)
(* A C++ pointer is modelled as a set: {} is nullptr, {v} points to v.     *)
(*                                                                         *)
(* A sampled Trace is followed to its end: the activity callbacks write    *)
(* text (sequences of tokens) to its streams, ~Trace hands the streams to  *)
(* TraceSetting::WriteTrace, and TraceFile::SaveTraces writes the files of *)
(* `disk`. Destructors run when the last reference to an object goes.      *)
(***************************************************************************)
EXTENDS Integers, Sequences, FiniteSets, TLC

VARIABLES
    global_default_,        \* id of the immutable baseline TraceSetting
    global_setting_,        \* id of the current global TraceSetting
    model_settings_,        \* function: model name -> TraceSetting id
    fallback_used_models_,  \* set of model names mirroring the global setting
    trace_files_,           \* function: file path -> TraceFile id, 0 = expired weak_ptr
    heap,                   \* function: TraceSetting id -> TraceSetting object
    files,                  \* function: TraceFile id -> TraceFile object
    traces,                 \* set of live Trace objects
    disk,                   \* function: file name -> the text written to that file
    pc,                     \* function: thread -> position in the call it is running
    loc,                    \* function: thread -> locals of the call it is running
    mu_,                    \* function: TraceSetting id -> thread holding its mu_ (no entry: free)
    tally,                  \* history: per TraceSetting id, what its sampler did
    calls,                  \* number of calls of each kind made so far
    last                    \* the last completed call and what it returned

vars == <<global_default_, global_setting_, model_settings_, fallback_used_models_,
          trace_files_, heap, files, traces, disk, pc, loc, mu_, tally, calls,
          last>>

-----------------------------------------------------------------------------
(* Bounds of the model *)

\* Calls made in a run of the sequential specification.
MaxCalls == 3
\* Calls of each kind made in a run of the concurrent specification.
MaxSample == 3
MaxGet == 1
MaxConcUpdates == 1
\* Calls made in a run of the session specification, and of the flush
\* specification.
MaxSessCalls == 6
MaxFlushCalls == 7
\* Callbacks made in a run of the activity specification.
MaxEvents == 3
\* Calls made in a run of the batch specification.
MaxBatchCalls == 9
\* UpdateTraceSetting calls made in a run of the updates specification.
MaxUpdates == 2
\* Calls started in a run of the locks specification.
MaxLockCalls == 3

(* Values *)

TRITONSERVER_TRACE_LEVEL_DISABLED == 0
TRITONSERVER_TRACE_LEVEL_TIMESTAMPS == 4
TRACE_MODE_TRITON == "triton"
TRACE_MODE_OPENTELEMETRY == "opentelemetry"

Levels == {TRITONSERVER_TRACE_LEVEL_DISABLED, TRITONSERVER_TRACE_LEVEL_TIMESTAMPS}
ModelNames == {"m"}
Names == {""} \cup ModelNames
Threads == {1, 2}

Deref(p) == CHOOSE v \in p : TRUE

(* The smallest id not used by heap h (operator new). *)
NewId(h) ==
    CHOOSE i \in 1..(Cardinality(DOMAIN h) + 1) :
        /\ i \notin DOMAIN h
        /\ \A j \in 1..(i - 1) : j \in DOMAIN h

-----------------------------------------------------------------------------
(* TraceFile and TraceSetting objects *)

\* trace_file_ is a std::ofstream: failbit_ is its failbit, after which it
\* writes nothing more.
TraceFile(file_name) ==
    [file_name_ |-> file_name, first_write_ |-> TRUE, index_ |-> 0,
     failbit_ |-> FALSE]

FileName(fs, file) == fs[file].file_name_

\* TraceSetting::TraceSetting: the fields, the counters at 0, and the reason
\* the setting is invalid ("" when there is none).
TraceSetting(fs, level, rate, count, log_frequency, file, mode, config_map, level_specified, rate_specified, count_specified, log_frequency_specified, filepath_specified, mode_specified, config_map_specified) ==
    [level_ |-> level, rate_ |-> rate, count_ |-> count,
     log_frequency_ |-> log_frequency, file_ |-> file, mode_ |-> mode,
     config_map_ |-> config_map,
     level_specified_ |-> level_specified, rate_specified_ |-> rate_specified,
     count_specified_ |-> count_specified,
     log_frequency_specified_ |-> log_frequency_specified,
     filepath_specified_ |-> filepath_specified,
     mode_specified_ |-> mode_specified,
     config_map_specified_ |-> config_map_specified,
     sample_ |-> 0, created_ |-> 0, collected_ |-> 0, sample_in_stream_ |-> 0,
     trace_stream_ |-> <<>>,
     invalid_reason_ |->
        IF level = TRITONSERVER_TRACE_LEVEL_DISABLED THEN "tracing is disabled"
        ELSE IF rate = 0 THEN "sample rate must be non-zero"
        ELSE IF mode = TRACE_MODE_TRITON /\ FileName(fs, file) = ""
             THEN "trace file name is not given"
        ELSE ""]

\* TraceSetting::Valid() is declared in tracer.h; the policy is valid iff
\* level != DISABLED, rate > 0 and (local mode => non-empty path), which is
\* when the constructor left invalid_reason_ empty.
Valid(ts) == ts.invalid_reason_ = ""

Reason(ts) == ts.invalid_reason_

-----------------------------------------------------------------------------
(* NewSetting: per field a pointer to the new value and a clear flag *)

NoUpdate ==
    [level_ |-> {}, rate_ |-> {}, count_ |-> {}, log_frequency_ |-> {},
     filepath_ |-> {}, mode_ |-> {}, config_map_ |-> {},
     clear_level_ |-> FALSE, clear_rate_ |-> FALSE, clear_count_ |-> FALSE,
     clear_log_frequency_ |-> FALSE, clear_filepath_ |-> FALSE,
     clear_mode_ |-> FALSE]

SetField(f, v) == [NoUpdate EXCEPT ![f] = {v}]

ClearField(c) == [NoUpdate EXCEPT ![c] = TRUE]

ClearFlags ==
    {"clear_level_", "clear_rate_", "clear_count_", "clear_log_frequency_",
     "clear_filepath_", "clear_mode_"}

\* Updates that set all five sampling fields at once.
FullSettings ==
    {[NoUpdate EXCEPT !.level_ = {TRITONSERVER_TRACE_LEVEL_TIMESTAMPS},
                      !.rate_ = {r}, !.count_ = {0},
                      !.log_frequency_ = {0}, !.filepath_ = {"f"}] :
        r \in {0, 2}}

\* The updates the callers make: nothing, one field set, one field cleared,
\* or all five sampling fields set.
NewSettings ==
    {NoUpdate}
    \cup {SetField("level_", v) : v \in Levels}
    \cup {SetField("rate_", v) : v \in {0, 2}}
    \cup {SetField("count_", v) : v \in {1}}
    \cup {SetField("log_frequency_", v) : v \in {1}}
    \cup {SetField("filepath_", v) : v \in {"", "g"}}
    \cup {SetField("mode_", v) : v \in {TRACE_MODE_OPENTELEMETRY}}
    \cup {SetField("config_map_", v) : v \in {"cfg1"}}
    \cup {ClearField(c) : c \in ClearFlags}
    \cup FullSettings

-----------------------------------------------------------------------------
(* TraceManager::UpdateTraceSettingInternal *)

\* The store as one value: what UpdateTraceSettingInternal reads and writes.
Store ==
    [gd |-> global_default_, g |-> global_setting_, ms |-> model_settings_,
     fb |-> fallback_used_models_, tf |-> trace_files_, heap |-> heap,
     files |-> files, disk |-> disk, err |-> ""]

\* Whether a field is specified: not if it is cleared, else if it was
\* specified or is being set.
Specified(clear, current_specified, new_value) ==
    IF clear THEN FALSE ELSE (current_specified \/ (new_value # {}))

\* config_map_specified: the condition tested first is the new value itself.
ConfigMapSpecified(current_specified, new_value) ==
    IF new_value # {} THEN FALSE ELSE (current_specified \/ (new_value # {}))

\* The value of a field: the fallback's unless specified, then the new value
\* if given, else the current one.
Merged(specified, new_value, current_value, fallback_value) ==
    IF specified
        THEN (IF new_value # {} THEN Deref(new_value) ELSE current_value)
        ELSE fallback_value

\* current_setting of an update: nullptr for a model without a setting.
CurrentSetting(s, model_name) ==
    IF model_name # ""
        THEN (IF model_name \in DOMAIN s.ms THEN {s.ms[model_name]} ELSE {})
        ELSE {s.g}

FallbackSetting(s, model_name) == IF model_name # "" THEN s.g ELSE s.gd

\* The specified flags of the updated setting.
MergeFlags(has_cur, cur, new_setting) ==
    [level_specified |->
        Specified(new_setting.clear_level_,
                  has_cur /\ cur.level_specified_, new_setting.level_),
     rate_specified |->
        Specified(new_setting.clear_rate_,
                  has_cur /\ cur.rate_specified_, new_setting.rate_),
     count_specified |->
        Specified(new_setting.clear_count_,
                  has_cur /\ cur.count_specified_, new_setting.count_),
     log_frequency_specified |->
        Specified(new_setting.clear_log_frequency_,
                  has_cur /\ cur.log_frequency_specified_,
                  new_setting.log_frequency_),
     filepath_specified |->
        Specified(new_setting.clear_filepath_,
                  has_cur /\ cur.filepath_specified_, new_setting.filepath_),
     mode_specified |->
        Specified(new_setting.clear_mode_,
                  has_cur /\ cur.mode_specified_, new_setting.mode_),
     config_map_specified |->
        ConfigMapSpecified(has_cur /\ cur.config_map_specified_,
                           new_setting.config_map_)]

\* The two passes: every field from the fallback setting, then the specified
\* fields from the new or the current setting.
MergeValues(fs, f, cur, fbk, new_setting) ==
    [level |-> Merged(f.level_specified, new_setting.level_, cur.level_, fbk.level_),
     rate |-> Merged(f.rate_specified, new_setting.rate_, cur.rate_, fbk.rate_),
     count |-> Merged(f.count_specified, new_setting.count_, cur.count_, fbk.count_),
     log_frequency |->
        Merged(f.log_frequency_specified, new_setting.log_frequency_,
               cur.log_frequency_, fbk.log_frequency_),
     filepath |->
        Merged(f.filepath_specified, new_setting.filepath_,
               FileName(fs, cur.file_), FileName(fs, fbk.file_)),
     mode |-> Merged(f.mode_specified, new_setting.mode_, cur.mode_, fbk.mode_),
     config_map |->
        Merged(f.config_map_specified, new_setting.config_map_,
               cur.config_map_, fbk.config_map_)]

AllSpecified(f) ==
    f.level_specified /\ f.rate_specified /\ f.count_specified
    /\ f.log_frequency_specified /\ f.filepath_specified

NoneSpecified(f) ==
    ~(f.level_specified \/ f.rate_specified \/ f.count_specified
      \/ f.log_frequency_specified \/ f.filepath_specified)

\* FallbackUsedModels without the erase of a fully specified model.
FallbackUsedModelsNoErase(fb, model_name, f) ==
    IF NoneSpecified(f) THEN fb ELSE fb \cup {model_name}

\* fallback_used_models_ after the special cases of a model update.
FallbackUsedModels(fb, model_name, f) ==
    IF AllSpecified(f) THEN fb \ {model_name}
    ELSE IF NoneSpecified(f) THEN fb
    ELSE fb \cup {model_name}

\* No TraceFile is ever found in trace_files_.
LookupFileNever(tf, filepath) == {}

\* trace_files_.find(filepath) and weak_ptr::lock(): {} when there is no
\* entry or the TraceFile is gone.
LookupFile(tf, filepath) ==
    IF filepath \in DOMAIN tf /\ tf[filepath] # 0 THEN {tf[filepath]} ELSE {}

\* Rejected with the test of the level inverted.
RejectedIfDisabled(lts, level) ==
    (~Valid(lts)) /\ (level = TRITONSERVER_TRACE_LEVEL_DISABLED)

\* The only invalid setting allowed is the one that disables tracing.
Rejected(lts, level) ==
    (~Valid(lts)) /\ (level # TRITONSERVER_TRACE_LEVEL_DISABLED)

\* The TraceSetting an update constructs, with the TraceFile of its path
\* (found in trace_files_, or created and registered there).
NewTraceSetting(s, f, v) ==
    LET found == LookupFile(s.tf, v.filepath)
        file == IF found # {} THEN Deref(found) ELSE NewId(s.files)
        files1 ==
            IF found # {} THEN s.files
            ELSE [i \in DOMAIN s.files \cup {file} |->
                    IF i = file THEN TraceFile(v.filepath) ELSE s.files[i]]
        tf1 ==
            IF found # {} THEN s.tf
            ELSE [p \in DOMAIN s.tf \cup {v.filepath} |->
                    IF p = v.filepath THEN file ELSE s.tf[p]]
    IN  [files |-> files1, tf |-> tf1,
         lts |-> TraceSetting(files1, v.level, v.rate, v.count, v.log_frequency,
                              file, v.mode, v.config_map, f.level_specified,
                              f.rate_specified, f.count_specified,
                              f.log_frequency_specified, f.filepath_specified,
                              f.mode_specified, f.config_map_specified)]

\* The swap under r_mu_: the new setting replaces the global one or the
\* model's, or becomes the model's first.
Publish(s, model_name, lts) ==
    LET id == NewId(s.heap)
        heap1 ==
            [i \in DOMAIN s.heap \cup {id} |-> IF i = id THEN lts ELSE s.heap[i]]
    IN  IF model_name = ""
            THEN [s EXCEPT !.heap = heap1, !.g = id]
            ELSE [s EXCEPT !.heap = heap1,
                           !.ms = [n \in DOMAIN s.ms \cup {model_name} |->
                                      IF n = model_name THEN id ELSE s.ms[n]]]

\* Lines 208 to 277, given the flags f and the values v of the merge.
Install(s, model_name, f, v, n) ==
    IF model_name # "" /\ ~AllSpecified(f) /\ NoneSpecified(f)
        THEN \* Simply let the model use the global setting
             [s EXCEPT !.ms = [k \in DOMAIN s.ms \ {model_name} |-> s.ms[k]],
                       !.err = ""]
    ELSE LET s1 == [s EXCEPT
                      !.fb = IF model_name # ""
                                THEN FallbackUsedModels(s.fb, model_name, f)
                                ELSE s.fb,
                      !.tf = n.tf, !.files = n.files]
         IN  IF Rejected(n.lts, v.level)
                THEN [s1 EXCEPT
                        !.err = "Attempting to set invalid trace setting :"
                                \o Reason(n.lts)]
                ELSE [Publish(s1, model_name, n.lts) EXCEPT !.err = ""]

UpdateTraceSettingMerged(s, model_name, f, v) ==
    Install(s, model_name, f, v, NewTraceSetting(s, f, v))

UpdateTraceSettingFlags(s, model_name, new_setting, has_cur, cur, fbk, f) ==
    UpdateTraceSettingMerged(s, model_name, f,
                             MergeValues(s.files, f, cur, fbk, new_setting))

UpdateTraceSettingOn(s, model_name, new_setting, has_cur, cur, fbk) ==
    UpdateTraceSettingFlags(s, model_name, new_setting, has_cur, cur, fbk,
                            MergeFlags(has_cur, cur, new_setting))

UpdateTraceSettingInternal(s, model_name, new_setting) ==
    UpdateTraceSettingOn(s, model_name, new_setting,
                         CurrentSetting(s, model_name) # {},
                         s.heap[Deref(CurrentSetting(s, model_name))],
                         s.heap[FallbackSetting(s, model_name)])

-----------------------------------------------------------------------------
(* Text: what is written to a stream or a file, as a sequence of tokens *)

\* A piece of text: k is its kind, tr the Trace and id the trace id it was
\* written for, n the number of the call that wrote it.
Token(k, tr, id, n) == [k |-> k, tr |-> tr, id |-> id, n |-> n]

Comma == Token(",", 0, 0, 0)

LeftBracket == Token("[", 0, 0, 0)

RightBracket == Token("]", 0, 0, 0)

-----------------------------------------------------------------------------
(* TraceManager::TraceFile *)

\* The file trace_file_ is opened on.
MainFile(file_name) == <<file_name, -1>>

\* file_name_ + "." + std::to_string(index)
IndexFile(file_name, index) == <<file_name, index>>

\* The disk after `text` became the content of file `name`.
Written(dk, name, text) ==
    [n \in DOMAIN dk \cup {name} |-> IF n = name THEN text ELSE dk[n]]

\* file << trace_stream.rdbuf() sets the failbit of `file` when the stream
\* holds no character.
SetsFailbit(trace_stream) == trace_stream = <<>>

\* What an std::ofstream whose failbit is `failbit` adds to a file for
\* `text`.
Inserted(failbit, text) == IF failbit THEN <<>> ELSE text

\* TraceFile::SaveTraces on TraceFile `file` of store s.
SaveTraces(s, file, trace_stream, to_index_file) ==
    IF to_index_file
        THEN [s EXCEPT
                !.files[file].index_ = @ + 1,
                !.disk = Written(s.disk,
                                 IndexFile(s.files[file].file_name_,
                                           s.files[file].index_),
                                 <<LeftBracket>> \o trace_stream
                                     \o Inserted(SetsFailbit(trace_stream),
                                                 <<RightBracket>>))]
    ELSE IF s.files[file].first_write_
        THEN [s EXCEPT
                !.files[file].first_write_ = FALSE,
                !.files[file].failbit_ = SetsFailbit(trace_stream),
                !.disk = Written(s.disk, MainFile(s.files[file].file_name_),
                                 <<LeftBracket>> \o trace_stream)]
    ELSE [s EXCEPT
            !.files[file].failbit_ = @ \/ SetsFailbit(trace_stream),
            !.disk = Written(s.disk, MainFile(s.files[file].file_name_),
                             s.disk[MainFile(s.files[file].file_name_)]
                                 \o Inserted(s.files[file].failbit_,
                                             <<Comma>> \o trace_stream))]

\* TraceFile::~TraceFile
DestroyTraceFile(s, file) ==
    IF ~s.files[file].first_write_
        THEN [s EXCEPT
                !.disk = Written(s.disk, MainFile(s.files[file].file_name_),
                                 s.disk[MainFile(s.files[file].file_name_)]
                                     \o Inserted(s.files[file].failbit_,
                                                 <<RightBracket>>))]
        ELSE s

\* TraceSetting::~TraceSetting
DestroyTraceSetting(s, id) ==
    IF s.heap[id].mode_ = TRACE_MODE_TRITON /\ s.heap[id].sample_in_stream_ # 0
        THEN SaveTraces(s, s.heap[id].file_, s.heap[id].trace_stream_,
                        s.heap[id].log_frequency_ # 0)
        ELSE s

-----------------------------------------------------------------------------
(* shared_ptr / weak_ptr ownership *)

\* The TraceSetting objects something still points to: the store, the locals
\* of the running calls and the live traces.
Referenced(s, held) ==
    {s.gd, s.g} \cup {s.ms[n] : n \in DOMAIN s.ms} \cup held

RECURSIVE DestroyTraceSettings(_, _)
\* The destructors of the TraceSetting objects of `dead`.
DestroyTraceSettings(s, dead) ==
    IF dead = {} THEN s
    ELSE LET id == CHOOSE i \in dead : \A j \in dead : i <= j
         IN  DestroyTraceSettings(DestroyTraceSetting(s, id), dead \ {id})

RECURSIVE DestroyTraceFiles(_, _)
\* The destructors of the TraceFile objects of `dead`.
DestroyTraceFiles(s, dead) ==
    IF dead = {} THEN s
    ELSE LET file == CHOOSE i \in dead : \A j \in dead : i <= j
         IN  DestroyTraceFiles(DestroyTraceFile(s, file), dead \ {file})

\* The store s1 with only the objects `live` and `liveFiles` left; a weak_ptr
\* of trace_files_ whose TraceFile is gone is expired (0).
Swept(s1, live, liveFiles) ==
    [s1 EXCEPT !.heap = [i \in live |-> s1.heap[i]],
               !.files = [f \in liveFiles |-> s1.files[f]],
               !.tf = [p \in DOMAIN s1.tf |->
                         IF s1.tf[p] \in liveFiles THEN s1.tf[p] ELSE 0]]

\* Destroy the objects nothing points to any more: the settings first, and
\* then the files that only they held.
Collected(s, live, liveFiles) ==
    Swept(DestroyTraceFiles(DestroyTraceSettings(s, DOMAIN s.heap \ live),
                            DOMAIN s.files \ liveFiles),
          live, liveFiles)

Collect(s, held) ==
    Collected(s, Referenced(s, held) \cap DOMAIN s.heap,
              {s.heap[i].file_ : i \in Referenced(s, held) \cap DOMAIN s.heap})

\* The TraceSetting objects held outside the store.
Held ==
    UNION {loc[t].trace_setting : t \in Threads}
    \cup {tr.setting_ : tr \in traces}

-----------------------------------------------------------------------------
(* TraceManager::UpdateTraceSetting *)

RECURSIVE UpdateFallbackModels(_, _)
\* The loop over the copy of fallback_used_models_, in the order `names`;
\* it stops at the first error.
UpdateFallbackModels(s, names) ==
    IF names = <<>> THEN s
    ELSE LET r == UpdateTraceSettingInternal(s, Head(names), NoUpdate)
         IN  IF r.err # "" THEN r ELSE UpdateFallbackModels(r, Tail(names))

\* The orders in which a set of names can be iterated.
Orders(S) ==
    {q \in [1..Cardinality(S) -> S] : \A n \in S : \E i \in DOMAIN q : q[i] = n}

UpdateResultOf(r, model_name, order) ==
    IF r.err # "" THEN r
    ELSE IF model_name = "" THEN UpdateFallbackModels(r, order)
    ELSE r

UpdateResult(s, model_name, new_setting, order) ==
    UpdateResultOf(UpdateTraceSettingInternal(s, model_name, new_setting),
                   model_name, order)

ZeroTally == [opps |-> 0, decisions |-> 0, sessions |-> 0]

\* The history of the objects of heap h: that of tl, and zero for a new one.
TallyFor(h, tl) ==
    [i \in DOMAIN h |-> IF i \in DOMAIN tl THEN tl[i] ELSE ZeroTally]

\* The store, heap and files become those of r.
SetStore(r) ==
    /\ global_setting_' = r.g
    /\ model_settings_' = r.ms
    /\ fallback_used_models_' = r.fb
    /\ trace_files_' = r.tf
    /\ heap' = r.heap
    /\ files' = r.files
    /\ disk' = r.disk

Called(kind) ==
    [calls EXCEPT ![kind] = @ + 1, !.total = @ + 1]

Returned(op, name, new_setting, err, out) ==
    [op |-> op, name |-> name, new_setting |-> new_setting, err |-> err,
     out |-> out]

UpdateTraceSetting(model_name, new_setting) ==
    /\ \E order \in Orders(fallback_used_models_) :
        \E r \in {Collect(UpdateResult(Store, model_name, new_setting, order),
                          Held)} :
            /\ SetStore(r)
            /\ tally' = TallyFor(r.heap, tally)
            /\ last' = Returned("update", model_name, new_setting, r.err, <<>>)
    /\ calls' = Called("update")
    /\ UNCHANGED <<global_default_, traces, pc, loc, mu_>>

-----------------------------------------------------------------------------
(* TraceManager::GetTraceSetting, TraceManager::SampleTrace: the lookup *)

\* The setting of a model, else the global one (under r_mu_).
ResolveIn(ms, g, model_name) ==
    IF model_name \in DOMAIN ms THEN ms[model_name] ELSE g

ResolveSetting(model_name) ==
    ResolveIn(model_settings_, global_setting_, model_name)

-----------------------------------------------------------------------------
(* TraceManager::TraceSetting::SampleTrace *)

\* The test, had it looked at the rate alone.
ReturnsNullIfRateZero(ts) == ts.rate_ = 0

\* if (!Valid()) return nullptr;
ReturnsNull(ts) == ~Valid(ts)

\* ++sample_, from the value of sample_ that was read.
SampleCounted(ts, sample) == [ts EXCEPT !.sample_ = sample + 1]

\* create_trace, after the increment.
CreateTrace(ts) == (ts.sample_ % ts.rate_) = 0

BudgetConsumed(ts, create_trace) ==
    IF create_trace /\ (ts.count_ > 0)
        THEN [ts EXCEPT !.count_ = @ - 1, !.created_ = @ + 1]
        ELSE ts

\* The critical section on a valid setting.
Sampled(ts, sample) ==
    BudgetConsumed(SampleCounted(ts, sample), CreateTrace(SampleCounted(ts, sample)))

Tallied(tl, id, create_trace) ==
    [tl EXCEPT ![id].opps = @ + 1,
               ![id].decisions = @ + (IF create_trace THEN 1 ELSE 0)]

\* The ids the engine gives the root traces of the sessions that are followed
\* to their end.
TraceIds == {1, 2}

\* The id the engine gives a child trace of the root trace trace_id.
ChildId(trace_id) == trace_id + Cardinality(TraceIds)

\* new Trace(), with the id the engine gives it; ts->setting_ = trace_setting.
\* streams_ has no stream, mtx_ is free (0), trace_userp_ and the caller
\* both hold the Trace, and the engine has the root trace and a child of it.
\* sibling_ is history: the calls that recorded activity after the child was
\* released and before the root was; so is spans_, the number of spans
\* InitSpan has started for the Trace.
Trace(setting) ==
    [trace_id_ |-> calls.traces + 1, setting_ |-> setting, streams_ |-> <<>>,
     mtx_ |-> 0, trace_span_ |-> "null", trace_userp_ |-> TRUE, held_ |-> TRUE,
     inference_traces_ |-> {calls.traces + 1, ChildId(calls.traces + 1)},
     sibling_ |-> {}, spans_ |-> 0]

\* delete trace_userp; return nullptr: lts goes with the call, and ~Trace
\* reads setting_->mode_ of a Trace whose setting_ was never set. What the
\* call does then is not defined: it returns nullptr, or the server stops.
FailedNew == {"null", "crashed"}

\* The server stopped in a call.
Crashed == last.out = <<"crashed">>

\* A whole SampleTrace call while no other thread runs; alloc_ok is whether
\* TRITONSERVER_InferenceTraceTensorNew succeeds.
SampleTraceCall(model_name, alloc_ok) ==
    LET id == ResolveSetting(model_name)
        ts == heap[id]
        ts1 == Sampled(ts, ts.sample_)
        create_trace == CreateTrace(ts1)
    IN  /\ \A t \in Threads : pc[t] = "idle"
        /\ IF ReturnsNull(ts)
              THEN /\ UNCHANGED <<heap, tally, traces>>
                   /\ calls' = Called("sample")
                   /\ last' = Returned("sample", model_name, NoUpdate, "", <<"null">>)
           ELSE /\ heap' = [heap EXCEPT ![id] = ts1]
                /\ IF create_trace /\ alloc_ok
                      THEN /\ traces' = traces \cup {Trace(id)}
                           /\ tally' = [Tallied(tally, id, create_trace)
                                           EXCEPT ![id].sessions = @ + 1]
                           /\ calls' = [Called("sample") EXCEPT !.traces = @ + 1]
                           /\ last' = Returned("sample", model_name, NoUpdate, "",
                                               <<"trace", id>>)
                      ELSE /\ traces' = traces
                           /\ tally' = Tallied(tally, id, create_trace)
                           /\ calls' = Called("sample")
                           /\ \E o \in (IF create_trace THEN FailedNew ELSE {"null"}) :
                                 last' = Returned("sample", model_name, NoUpdate, "",
                                                  <<o>>)
        /\ UNCHANGED <<global_default_, global_setting_, model_settings_,
                       fallback_used_models_, trace_files_, files, disk, pc, loc, mu_>>

-----------------------------------------------------------------------------
(* TraceManager::TraceManager *)

\* The settings the server is started with: (level, rate, count,
\* log_frequency, filepath, mode).
InitialSettings ==
    {<<TRITONSERVER_TRACE_LEVEL_DISABLED, 1, 0, 0, "", TRACE_MODE_TRITON>>,
     <<TRITONSERVER_TRACE_LEVEL_TIMESTAMPS, 1, 1, 0, "f", TRACE_MODE_TRITON>>,
     <<TRITONSERVER_TRACE_LEVEL_TIMESTAMPS, 2, 0, 0, "f", TRACE_MODE_TRITON>>,
     <<TRITONSERVER_TRACE_LEVEL_TIMESTAMPS, 0, 0, 0, "f", TRACE_MODE_TRITON>>}

IdleLoc ==
    [model_name |-> "", trace_setting |-> {}, sample |-> 0,
     create_trace |-> FALSE, out |-> <<>>, ts |-> {}, id |-> 0,
     call |-> "", activity |-> "", datatype |-> "", byte_size |-> 0,
     n |-> 0, before |-> <<>>, new_setting |-> NoUpdate, names |-> <<>>]

\* The state the constructor leaves, given the settings c.
TraceManager(c) ==
        LET fs == (1 :> TraceFile(c[5]))
            ts == TraceSetting(fs, c[1], c[2], c[3], c[4], 1, c[6], "cfg0",
                               FALSE, FALSE, FALSE, FALSE, FALSE, FALSE, FALSE)
        IN  /\ files = fs
            /\ heap = (1 :> ts) @@ (2 :> ts)
            /\ global_default_ = 1
            /\ global_setting_ = 2
            /\ trace_files_ = (c[5] :> 1)
            /\ model_settings_ = <<>>
            /\ fallback_used_models_ = {}
            /\ traces = {}
            /\ disk = <<>>
            /\ pc = [t \in Threads |-> "idle"]
            /\ loc = [t \in Threads |-> IdleLoc]
            /\ mu_ = <<>>
            /\ tally = (1 :> ZeroTally) @@ (2 :> ZeroTally)
            /\ calls = [total |-> 0, update |-> 0, sample |-> 0, get |-> 0,
                        traces |-> 0, events |-> 0, teardowns |-> 0,
                        updates |-> <<>>]
            /\ last = Returned("init", "", NoUpdate, "", <<>>)

Init == \E c \in InitialSettings : TraceManager(c)

-----------------------------------------------------------------------------
(* Concurrent callers: each thread runs one call at a time, step by step *)

\* The TraceSetting the running call of thread t holds (its trace_setting).
HeldBy(t) == Deref(loc[t].trace_setting)

\* MuFree for a SampleTrace that takes no lock.
MuFreeAlways(id) == TRUE

\* std::lock_guard on mu_ of a TraceSetting: taken only while no thread has it.
MuFree(id) == id \notin DOMAIN mu_

Locked(id, t) == [i \in DOMAIN mu_ \cup {id} |-> IF i = id THEN t ELSE mu_[i]]

Unlocked(id) == [i \in DOMAIN mu_ \ {id} |-> mu_[i]]

\* w_mu_ is held by the thread that is between the first line of
\* UpdateTraceSetting and its return, r_mu_ by the one in the block of lines
\* 264 to 277 or 220 to 222.
HoldsW(t) == pc[t] \in {"update_merge", "update_lock_r", "update_swap"}

HoldsR(t) == pc[t] = "update_swap"

\* WMuFree for an UpdateTraceSetting that takes no lock.
WMuFreeAlways == TRUE

WMuFree == \A u \in Threads : ~HoldsW(u)

\* RMuFree for an r_mu_ that is never given.
RMuFreeNever == FALSE

RMuFree == \A u \in Threads : ~HoldsR(u)

\* The call of thread t returns: its locals go, and with them what only they
\* referenced.
Return(t, h, trs) ==
    \E r \in {Collect([Store EXCEPT !.heap = h],
                      UNION {loc[u].trace_setting : u \in Threads \ {t}}
                      \cup {tr.setting_ : tr \in trs})} :
        /\ SetStore(r)
        /\ pc' = [pc EXCEPT ![t] = "idle"]
        /\ loc' = [loc EXCEPT ![t] = IdleLoc]

\* TraceManager::SampleTrace: the lookup under r_mu_.
SampleResolve(t, model_name) ==
    /\ pc[t] = "idle"
    /\ RMuFree
    /\ pc' = [pc EXCEPT ![t] = "sample_lock"]
    /\ loc' = [loc EXCEPT ![t] = [IdleLoc EXCEPT
                                    !.model_name = model_name,
                                    !.trace_setting = {ResolveSetting(model_name)}]]
    /\ calls' = Called("sample")
    /\ UNCHANGED <<global_default_, global_setting_, model_settings_,
                   fallback_used_models_, trace_files_, heap, files, disk, traces, mu_,
                   tally, last>>

\* TraceSetting::SampleTrace: std::lock_guard<std::mutex> lk(mu_).
SampleLock(t) ==
    /\ pc[t] = "sample_lock"
    /\ MuFree(HeldBy(t))
    /\ mu_' = Locked(HeldBy(t), t)
    /\ pc' = [pc EXCEPT ![t] = "sample_load"]
    /\ UNCHANGED <<global_default_, global_setting_, model_settings_,
                   fallback_used_models_, trace_files_, heap, files, disk, traces, loc,
                   tally, calls, last>>

\* if (!Valid()) return nullptr; else read sample_ for the increment.
SampleLoad(t) ==
    /\ pc[t] = "sample_load"
    /\ IF ReturnsNull(heap[HeldBy(t)])
          THEN /\ mu_' = Unlocked(HeldBy(t))
               /\ Return(t, heap, traces)
               /\ tally' = TallyFor(heap', tally)
               /\ last' = Returned("sample", loc[t].model_name, NoUpdate, "",
                                   <<"null">>)
               /\ UNCHANGED <<global_default_, traces, calls>>
          ELSE /\ loc' = [loc EXCEPT ![t].sample = heap[HeldBy(t)].sample_]
               /\ pc' = [pc EXCEPT ![t] = "sample_store"]
               /\ UNCHANGED <<global_default_, global_setting_, model_settings_,
                              fallback_used_models_, trace_files_, heap, files, disk,
                              traces, mu_, tally, calls, last>>

\* The rest of the critical section: sample_ written, the decision, the
\* budget, and the lock released.
SampleStore(t) ==
    /\ pc[t] = "sample_store"
    /\ \E ts1 \in {Sampled(heap[HeldBy(t)], loc[t].sample)} :
        \E h \in {[heap EXCEPT ![HeldBy(t)] = ts1]} :
            /\ mu_' = Unlocked(HeldBy(t))
            /\ IF CreateTrace(SampleCounted(heap[HeldBy(t)], loc[t].sample))
                  THEN /\ heap' = h
                       /\ tally' = Tallied(tally, HeldBy(t), TRUE)
                       /\ loc' = [loc EXCEPT ![t].create_trace = TRUE]
                       /\ pc' = [pc EXCEPT ![t] = "sample_new"]
                       /\ UNCHANGED <<global_setting_, model_settings_,
                                      fallback_used_models_, trace_files_, files, disk,
                                      last>>
                  ELSE /\ Return(t, h, traces)
                       /\ tally' = TallyFor(heap', Tallied(tally, HeldBy(t), FALSE))
                       /\ last' = Returned("sample", loc[t].model_name, NoUpdate,
                                           "", <<"null">>)
    /\ UNCHANGED <<global_default_, traces, calls>>

\* Outside the lock: the Trace is built, unless the engine gives no handle.
SampleNew(t, alloc_ok) ==
    /\ pc[t] = "sample_new"
    /\ IF alloc_ok
          THEN /\ traces' = traces \cup {Trace(HeldBy(t))}
               /\ Return(t, heap, traces')
               /\ tally' = [TallyFor(heap', tally) EXCEPT ![HeldBy(t)].sessions = @ + 1]
               /\ calls' = [calls EXCEPT !.traces = @ + 1]
               /\ last' = Returned("sample", loc[t].model_name, NoUpdate, "",
                                   <<"trace", HeldBy(t)>>)
          ELSE /\ traces' = traces
               /\ Return(t, heap, traces)
               /\ tally' = TallyFor(heap', tally)
               /\ calls' = calls
               /\ \E o \in FailedNew :
                     last' = Returned("sample", loc[t].model_name, NoUpdate, "",
                                      <<o>>)
    /\ UNCHANGED <<global_default_, mu_>>

\* TraceManager::GetTraceSetting: the lookup under r_mu_.
GetResolve(t, model_name) ==
    /\ pc[t] = "idle"
    /\ RMuFree
    /\ pc' = [pc EXCEPT ![t] = "get"]
    /\ loc' = [loc EXCEPT ![t] = [IdleLoc EXCEPT
                                    !.model_name = model_name,
                                    !.trace_setting = {ResolveSetting(model_name)}]]
    /\ calls' = Called("get")
    /\ UNCHANGED <<global_default_, global_setting_, model_settings_,
                   fallback_used_models_, trace_files_, heap, files, disk, traces, mu_,
                   tally, last>>

\* ReadTarget for a reader that looks the name up again at every read.
ReadTargetNow(t) == ResolveSetting(loc[t].model_name)

\* The object the reads of GetTraceSetting go to: trace_setting-> .
ReadTarget(t) == HeldBy(t)

\* The k-th output of GetTraceSetting, read from setting ts.
ReadField(ts, k) ==
    CASE k = 1 -> ts.level_
      [] k = 2 -> ts.rate_
      [] k = 3 -> ts.count_
      [] k = 4 -> ts.log_frequency_
      [] k = 5 -> FileName(files, ts.file_)
      [] k = 6 -> ts.mode_

NumOutputs == 6

\* One of the six reads, in the order of the code.
GetRead(t) ==
    /\ pc[t] = "get"
    /\ loc' = [loc EXCEPT ![t].out =
                  Append(@, ReadField(heap[ReadTarget(t)], Len(@) + 1))]
    /\ pc' = [pc EXCEPT ![t] = IF Len(loc[t].out) + 1 = NumOutputs
                                  THEN "get_return" ELSE "get"]
    /\ UNCHANGED <<global_default_, global_setting_, model_settings_,
                   fallback_used_models_, trace_files_, heap, files, disk, traces, mu_,
                   tally, calls, last>>

GetReturn(t) ==
    /\ pc[t] = "get_return"
    /\ Return(t, heap, traces)
    /\ tally' = TallyFor(heap', tally)
    /\ last' = Returned("get", loc[t].model_name, NoUpdate, "", loc[t].out)
    /\ UNCHANGED <<global_default_, traces, mu_, calls>>

-----------------------------------------------------------------------------
(* TraceManager::TraceSetting::WriteTrace *)

RECURSIVE JoinStreams(_, _)
\* The streams of a Trace, in the order the map is iterated, with a "," after
\* each but the last.
JoinStreams(streams, order) ==
    IF order = <<>> THEN <<>>
    ELSE streams[Head(order)]
         \o (IF Tail(order) # <<>> THEN <<Comma>> ELSE <<>>)
         \o JoinStreams(streams, Tail(order))

\* The setting after lines 875 to 889: one more trace in trace_stream_.
Collecting(ts, streams, order) ==
    [ts EXCEPT !.trace_stream_ =
                   @ \o (IF ts.sample_in_stream_ # 0 THEN <<Comma>> ELSE <<>>)
                     \o JoinStreams(streams, order),
               !.sample_in_stream_ = @ + 1,
               !.collected_ = @ + 1]

\* The test of line 894.
Flushes(ts1) ==
    \/ (ts1.count_ = 0) /\ (ts1.collected_ = ts1.sample_)
    \/ (ts1.log_frequency_ # 0) /\ (ts1.sample_in_stream_ >= ts1.log_frequency_)

\* Lines 894 to 903 on setting id, which is ts1 after the trace was added.
WriteTraceOn(s, id, ts1) ==
    IF Flushes(ts1)
        THEN SaveTraces([s EXCEPT !.heap[id] =
                            [ts1 EXCEPT !.sample_in_stream_ = 0,
                                        !.trace_stream_ = <<>>]],
                        ts1.file_, ts1.trace_stream_, TRUE)
        ELSE [s EXCEPT !.heap[id] = ts1]

WriteTrace(s, id, streams, order) ==
    WriteTraceOn(s, id, Collecting(s.heap[id], streams, order))

-----------------------------------------------------------------------------
(* TraceManager::Trace::~Trace, TraceManager::TraceRelease *)

\* The TraceSetting objects held outside the store when the Traces are trs.
HeldAfter(trs) ==
    UNION {loc[t].trace_setting : t \in Threads} \cup {tr.setting_ : tr \in trs}

\* ~Trace, had it looked the global setting up again.
DestroyTraceResolved(s, tr, order) ==
    IF s.heap[s.g].mode_ = TRACE_MODE_TRITON
        THEN WriteTrace(s, s.g, tr.streams_, order)
        ELSE s

\* Trace::~Trace on store s; EndSpan changes only the Trace, which is gone.
DestroyTrace(s, tr, order) ==
    IF s.heap[tr.setting_].mode_ = TRACE_MODE_TRITON
        THEN WriteTrace(s, tr.setting_, tr.streams_, order)
        ELSE s

\* What ~Trace did with the Trace: flushed its setting's stream to a file,
\* left it buffered there, or ended the span (if there was one).
TeardownOutcome(tr, ts1) ==
    IF ts1.mode_ = TRACE_MODE_TRITON
        THEN (IF Flushes(ts1) THEN "flushed" ELSE "buffered")
        ELSE (IF tr.trace_span_ # "null" THEN "span_ended" ELSE "no_span")

\* The last shared_ptr to tr is gone, in call op on trace id: ~Trace runs,
\* and then the destructors of what the Trace alone held.
Teardown(tr, op, id) ==
    \E order \in Orders(DOMAIN tr.streams_) :
        \E ts1 \in {IF heap[tr.setting_].mode_ = TRACE_MODE_TRITON
                       THEN Collecting(heap[tr.setting_], tr.streams_, order)
                       ELSE heap[tr.setting_]} :
            \E r \in {Collect(DestroyTrace(Store, tr, order),
                              HeldAfter(traces \ {tr}))} :
                /\ SetStore(r)
                /\ traces' = traces \ {tr}
                /\ tally' = TallyFor(r.heap, tally)
                /\ calls' = [calls EXCEPT !.teardowns = @ + 1, !.total = @ + 1]
                /\ last' = Returned(op, "", NoUpdate, "",
                                    <<TeardownOutcome(tr, ts1), tr, id, ts1>>)

\* tr2 is tr with one shared_ptr less: the Trace goes with its last one.
Released(tr, tr2, op, id) ==
    IF ~tr2.trace_userp_ /\ ~tr2.held_
        THEN Teardown(tr, op, id)
        ELSE /\ traces' = (traces \ {tr}) \cup {tr2}
             /\ last' = Returned(op, "", NoUpdate, "", <<"alive", tr2, id, {}>>)
             /\ calls' = [calls EXCEPT !.total = @ + 1]
             /\ UNCHANGED <<global_setting_, model_settings_,
                            fallback_used_models_, trace_files_, heap, files,
                            disk, tally>>

\* TRITONSERVER_InferenceTraceParentId of trace id of Trace tr.
ParentId(tr, id) == IF id = tr.trace_id_ THEN 0 ELSE tr.trace_id_

\* TraceRelease, had it deleted userp with any trace.
DeletesUserpAlways(parent_id) == TRUE

\* Whether TraceRelease deletes userp.
DeletesUserp(parent_id) == parent_id = 0

\* A callback of the engine (or, with activity "timestamp", a call of the
\* frontend) is running on Trace tr.
InFlight(tr, frontend) ==
    \E t \in Threads :
        /\ loc[t].ts = {tr.trace_id_}
        /\ (loc[t].activity = "timestamp") = frontend

\* TraceRelease(trace, userp) for trace id of Trace tr: the engine is done
\* with that trace.
TraceRelease(tr, id) ==
    /\ id \in tr.inference_traces_
    /\ tr.trace_userp_
    /\ ~InFlight(tr, FALSE)
    /\ Released(tr,
                [tr EXCEPT !.inference_traces_ = @ \ {id},
                           !.trace_userp_ =
                               IF DeletesUserp(ParentId(tr, id)) THEN FALSE ELSE @],
                "TraceRelease", id)
    /\ UNCHANGED <<global_default_, pc, loc, mu_>>

\* The caller of SampleTrace lets go of the shared_ptr it was given.
TraceReset(tr) ==
    /\ tr.held_
    /\ ~InFlight(tr, TRUE)
    /\ Released(tr, [tr EXCEPT !.held_ = FALSE], "reset", 0)
    /\ UNCHANGED <<global_default_, pc, loc, mu_>>

-----------------------------------------------------------------------------
(* TraceManager::TraceActivity, TraceManager::TraceTensorActivity and
   TraceManager::Trace::CaptureTimestamp *)

TraceOf(trace_id) == CHOOSE tr \in traces : tr.trace_id_ = trace_id

\* The Trace the call of thread t is on.
Running(t) == TraceOf(Deref(loc[t].ts))

\* No lock on mtx_: a callback starts whatever the others do.
MtxFreeAlways(tr) == TRUE

\* std::lock_guard on mtx_ of a Trace: taken only while no thread has it.
MtxFree(tr) == tr.mtx_ = 0

Replaced(tr, tr2) == (traces \ {tr}) \cup {tr2}

\* streams_ after the stream of id was looked up: emplaced if it was not
\* there, and else given a ",".
StreamFor(streams, id) ==
    IF id \in DOMAIN streams
        THEN [streams EXCEPT ![id] = @ \o <<Comma>>]
        ELSE [i \in DOMAIN streams \cup {id} |-> IF i = id THEN <<>> ELSE streams[i]]

\* TRITONSERVER_TRACE_LEVEL_TIMESTAMPS is a bit of the level.
HasTimestamps(level) ==
    (level \div TRITONSERVER_TRACE_LEVEL_TIMESTAMPS) % 2 = 1

\* The activities TraceTensorActivity accepts.
TensorActivities ==
    {"TENSOR_QUEUE_INPUT", "TENSOR_BACKEND_INPUT", "TENSOR_BACKEND_OUTPUT"}

\* sizeof(uint32_t), the length prefix of an element of type BYTES.
SizeofUint32 == 4

\* The switch on datatype returns before the closing text is written: an
\* invalid type, or a first BYTES element that does not fit in byte_size.
TensorReturns(datatype, byte_size) ==
    \/ datatype = "INVALID"
    \/ datatype = "BYTES" /\ (0 + SizeofUint32) > byte_size

\* What the call writes to the stream once it has it.
Text(call, activity, datatype, byte_size, trace_id, id, n) ==
    CASE call = "TraceActivity" ->
            (IF activity = "REQUEST_START"
                THEN <<Token("details", trace_id, id, n), Comma>>
                ELSE <<>>)
            \o <<Token("timestamps", trace_id, id, n)>>
      [] call = "CaptureTimestamp" -> <<Token("timestamps", trace_id, id, n)>>
      [] call = "TraceTensorActivity" ->
            IF TensorReturns(datatype, byte_size)
                THEN <<Token("tensor_open", trace_id, id, n)>>
                ELSE <<Token("tensor_open", trace_id, id, n),
                       Token("tensor_data", trace_id, id, n),
                       Token("tensor_close", trace_id, id, n)>>

\* Trace tr after the stream of id was looked up (local mode only).
Looked(tr, id) ==
    IF heap[tr.setting_].mode_ = TRACE_MODE_TRITON
        THEN [tr EXCEPT !.streams_ = StreamFor(tr.streams_, id)]
        ELSE tr

\* Trace tr after `text` was written to the stream of id, or, in
\* OpenTelemetry mode, the event added to the span (started if need be).
Wrote(tr, id, text) ==
    [(IF heap[tr.setting_].mode_ = TRACE_MODE_TRITON
         THEN [tr EXCEPT !.streams_[id] = @ \o text]
         ELSE [tr EXCEPT !.trace_span_ = "started",
                         !.spans_ = IF tr.trace_span_ = "null"
                                       THEN @ + 1 ELSE @])
        EXCEPT !.sibling_ =
            IF tr.inference_traces_ = {tr.trace_id_}
                THEN @ \cup {k.n : k \in {text[j] : j \in DOMAIN text} \ {Comma}}
                ELSE @]

\* What a call that reached the stream reports: a tensor whose switch
\* returned early is dropped.
Outcome(call, datatype, byte_size) ==
    IF call = "TraceTensorActivity" /\ TensorReturns(datatype, byte_size)
        THEN "dropped" ELSE "written"

\* The call of thread t takes mtx_ of tr and looks the stream of id up.
Enter(t, tr, id, call, activity, datatype, byte_size) ==
    /\ MtxFree(tr)
    /\ traces' = Replaced(tr, [Looked(tr, id) EXCEPT !.mtx_ = t])
    /\ pc' = [pc EXCEPT ![t] = "write"]
    /\ loc' = [loc EXCEPT ![t] =
                  [IdleLoc EXCEPT !.ts = {tr.trace_id_}, !.id = id,
                                  !.call = call, !.activity = activity,
                                  !.datatype = datatype,
                                  !.byte_size = byte_size,
                                  !.n = calls.events + 1,
                                  !.before = tr.streams_]]
    /\ last' = last

\* A call that returns without taking mtx_; tr2 is the Trace after it.
Skip(tr, tr2, id, call, outcome) ==
    /\ traces' = Replaced(tr, tr2)
    /\ last' = Returned(call, "", NoUpdate, "",
                        <<outcome, tr.trace_id_, id, calls.events + 1,
                          tr.streams_>>)
    /\ UNCHANGED <<pc, loc>>

\* CaptureTimestamp in OpenTelemetry mode, to the test of line 362: no lock
\* is taken, and what thread t finds in trace_span_ is in out.
Test(t, tr) ==
    /\ traces' = traces
    /\ pc' = [pc EXCEPT ![t] = "span"]
    /\ loc' = [loc EXCEPT ![t] =
                  [IdleLoc EXCEPT !.ts = {tr.trace_id_}, !.id = tr.trace_id_,
                                  !.call = "CaptureTimestamp",
                                  !.activity = "timestamp",
                                  !.n = calls.events + 1,
                                  !.before = tr.streams_,
                                  !.out = <<tr.trace_span_>>]]
    /\ last' = last

\* The parts every callback has: its thread is idle before, and it is
\* counted.
Event(t) ==
    /\ pc[t] = "idle"
    /\ calls' = [calls EXCEPT !.events = @ + 1, !.total = @ + 1]
    /\ UNCHANGED <<global_default_, global_setting_, model_settings_,
                   fallback_used_models_, trace_files_, heap, files, disk, mu_,
                   tally>>

\* TraceActivity(trace, activity, timestamp_ns, userp), to the lookup of the
\* stream.
TraceActivity(t, tr, id, activity) ==
    /\ Event(t)
    /\ tr.trace_userp_
    /\ id \in tr.inference_traces_
    /\ Enter(t, tr, id, "TraceActivity", activity, "", 0)

\* TraceTensorActivity(trace, activity, name, datatype, base, byte_size, ...,
\* userp) on a buffer in CPU memory, to the lookup of the stream.
TraceTensorActivity(t, tr, id, activity, datatype, byte_size) ==
    /\ Event(t)
    /\ tr.trace_userp_
    /\ id \in tr.inference_traces_
    /\ IF activity \notin TensorActivities
          THEN Skip(tr, tr, id, "TraceTensorActivity", "dropped")
       ELSE IF heap[tr.setting_].mode_ = TRACE_MODE_OPENTELEMETRY
          THEN Skip(tr, tr, id, "TraceTensorActivity", "dropped")
       ELSE Enter(t, tr, id, "TraceTensorActivity", activity, datatype, byte_size)

\* Trace::CaptureTimestamp(name, timestamp_ns), called by the holder of the
\* Trace, to the lookup of the stream.
CaptureTimestamp(t, tr) ==
    /\ Event(t)
    /\ tr.held_
    /\ IF ~HasTimestamps(heap[tr.setting_].level_)
          THEN Skip(tr, tr, tr.trace_id_, "CaptureTimestamp", "dropped")
       ELSE IF heap[tr.setting_].mode_ = TRACE_MODE_OPENTELEMETRY
          THEN Test(t, tr)
       ELSE Enter(t, tr, tr.trace_id_, "CaptureTimestamp", "timestamp", "", 0)

\* The rest of CaptureTimestamp in OpenTelemetry mode: InitSpan if the test
\* found no span, and AddEvent.
AddEvent(t) ==
    /\ pc[t] = "span"
    /\ \E tr \in {Running(t)} :
          /\ traces' = Replaced(tr,
                Wrote([tr EXCEPT !.trace_span_ = loc[t].out[1]], loc[t].id,
                      Text(loc[t].call, loc[t].activity, "", 0, tr.trace_id_,
                           loc[t].id, loc[t].n)))
          /\ last' = Returned(loc[t].call, "", NoUpdate, "",
                        <<"written", tr.trace_id_, loc[t].id, loc[t].n,
                          loc[t].before>>)
    /\ pc' = [pc EXCEPT ![t] = "idle"]
    /\ loc' = [loc EXCEPT ![t] = IdleLoc]
    /\ UNCHANGED <<global_default_, global_setting_, model_settings_,
                   fallback_used_models_, trace_files_, heap, files, disk, mu_,
                   tally, calls>>

\* The rest of the call of thread t: the text is written to the stream (or
\* the event added to the span) and mtx_ released.
Write(t) ==
    /\ pc[t] = "write"
    /\ \E tr \in {Running(t)} :
          /\ traces' = Replaced(tr,
                [Wrote(tr, loc[t].id,
                       Text(loc[t].call, loc[t].activity, loc[t].datatype,
                            loc[t].byte_size, tr.trace_id_, loc[t].id, loc[t].n))
                    EXCEPT !.mtx_ = 0])
          /\ last' = Returned(loc[t].call, "", NoUpdate, "",
                        <<Outcome(loc[t].call, loc[t].datatype, loc[t].byte_size),
                          tr.trace_id_, loc[t].id, loc[t].n, loc[t].before>>)
    /\ pc' = [pc EXCEPT ![t] = "idle"]
    /\ loc' = [loc EXCEPT ![t] = IdleLoc]
    /\ UNCHANGED <<global_default_, global_setting_, model_settings_,
                   fallback_used_models_, trace_files_, heap, files, disk, mu_,
                   tally, calls>>

\* A whole TraceActivity call while no other thread runs.
TraceActivityCall(tr, id, activity) ==
    /\ \A t \in Threads : pc[t] = "idle"
    /\ tr.trace_userp_
    /\ id \in tr.inference_traces_
    /\ traces' = Replaced(tr,
                    Wrote(Looked(tr, id), id,
                          Text("TraceActivity", activity, "", 0, tr.trace_id_,
                               id, calls.events + 1)))
    /\ last' = Returned("TraceActivity", "", NoUpdate, "",
                        <<"written", tr.trace_id_, id, calls.events + 1,
                          tr.streams_>>)
    /\ calls' = [calls EXCEPT !.events = @ + 1, !.total = @ + 1]
    /\ UNCHANGED <<global_default_, global_setting_, model_settings_,
                   fallback_used_models_, trace_files_, heap, files, disk, pc,
                   loc, mu_, tally>>

-----------------------------------------------------------------------------
(* TraceManager::UpdateTraceSetting on a thread, step by step *)

\* The setting the call of thread t passes to UpdateTraceSettingInternal for
\* the name it is at: its own for the first, `setting` for the others.
Passed(t) == IF loc[t].n = 0 THEN loc[t].new_setting ELSE NoUpdate

\* Thread t calls UpdateTraceSetting(model_name, new_setting).
UpdateCall(t, model_name, new_setting) ==
    /\ pc[t] = "idle"
    /\ pc' = [pc EXCEPT ![t] = "update_lock_w"]
    /\ loc' = [loc EXCEPT ![t] = [IdleLoc EXCEPT
                                    !.model_name = model_name,
                                    !.new_setting = new_setting,
                                    !.names = <<model_name>>]]
    /\ calls' = [Called("update") EXCEPT
                    !.updates = Append(@, <<model_name, new_setting>>)]
    /\ UNCHANGED <<global_default_, global_setting_, model_settings_,
                   fallback_used_models_, trace_files_, heap, files, disk,
                   traces, mu_, tally, last>>

\* std::lock_guard<std::mutex> w_lk(w_mu_)
UpdateLockW(t) ==
    /\ pc[t] = "update_lock_w"
    /\ WMuFree
    /\ pc' = [pc EXCEPT ![t] = "update_merge"]
    /\ UNCHANGED <<global_default_, global_setting_, model_settings_,
                   fallback_used_models_, trace_files_, heap, files, disk,
                   traces, loc, mu_, tally, calls, last>>

\* UpdateTraceSettingInternal for the name the call is at, to the block
\* under r_mu_: the merge, fallback_used_models_, the TraceFile and the new
\* TraceSetting lts, which the call holds. A rejected setting ends the call.
UpdateMerge(t) ==
    /\ pc[t] = "update_merge"
    /\ \E name \in {Head(loc[t].names)} :
       \E r \in {UpdateTraceSettingInternal(Store, name, Passed(t))} :
          IF r.err # ""
             THEN /\ \E c \in {Collect(r, Held)} :
                        /\ SetStore(c)
                        /\ tally' = TallyFor(c.heap, tally)
                  /\ pc' = [pc EXCEPT ![t] = "idle"]
                  /\ loc' = [loc EXCEPT ![t] = IdleLoc]
                  /\ last' = Returned("update", loc[t].model_name,
                                      loc[t].new_setting, r.err, <<>>)
          ELSE IF name \notin DOMAIN r.ms /\ name # ""
             THEN /\ pc' = [pc EXCEPT ![t] = "update_lock_r"]
                  /\ UNCHANGED <<global_setting_, model_settings_,
                                 fallback_used_models_, trace_files_, heap,
                                 files, disk, loc, tally, last>>
          ELSE /\ SetStore([r EXCEPT !.g = global_setting_,
                                     !.ms = model_settings_])
               /\ tally' = TallyFor(r.heap, tally)
               /\ pc' = [pc EXCEPT ![t] = "update_lock_r"]
               /\ loc' = [loc EXCEPT ![t].trace_setting = CurrentSetting(r, name)]
               /\ last' = last
    /\ UNCHANGED <<global_default_, traces, mu_, calls>>

\* std::lock_guard<std::mutex> r_lk(r_mu_)
UpdateLockR(t) ==
    /\ pc[t] = "update_lock_r"
    /\ RMuFree
    /\ pc' = [pc EXCEPT ![t] = "update_swap"]
    /\ UNCHANGED <<global_default_, global_setting_, model_settings_,
                   fallback_used_models_, trace_files_, heap, files, disk,
                   traces, loc, mu_, tally, calls, last>>

\* The store after the block under r_mu_ for `name`: lts is the global
\* setting or the setting of the model, or the model has none (no lts).
Swapped(s, name, lts) ==
    IF lts = {} THEN [s EXCEPT !.ms = [k \in DOMAIN s.ms \ {name} |-> s.ms[k]]]
    ELSE IF name = "" THEN [s EXCEPT !.g = Deref(lts)]
    ELSE [s EXCEPT !.ms = [k \in DOMAIN s.ms \cup {name} |->
                              IF k = name THEN Deref(lts) ELSE s.ms[k]]]

\* The names UpdateTraceSetting goes on with after `names`: after the name
\* of a global update (the first, n = 0), the copy of fallback_used_models_.
Remaining(t, fb) ==
    IF loc[t].n = 0 /\ loc[t].model_name = ""
        THEN {order : order \in Orders(fb)}
        ELSE {Tail(loc[t].names)}

\* The block under r_mu_: the assignment (or the erase) lets the setting it
\* replaces go, whose destructor runs there if nothing else holds it; r_mu_
\* is released, and the call goes to its next name or returns.
UpdateSwap(t) ==
    /\ pc[t] = "update_swap"
    /\ \E c \in {Collect(Swapped(Store, Head(loc[t].names), loc[t].trace_setting),
                         Held)} :
       \E names \in Remaining(t, c.fb) :
          /\ SetStore(c)
          /\ tally' = TallyFor(c.heap, tally)
          /\ IF names = <<>>
                THEN /\ pc' = [pc EXCEPT ![t] = "idle"]
                     /\ loc' = [loc EXCEPT ![t] = IdleLoc]
                     /\ last' = Returned("update", loc[t].model_name,
                                         loc[t].new_setting, "", <<>>)
                ELSE /\ pc' = [pc EXCEPT ![t] = "update_merge"]
                     /\ loc' = [loc EXCEPT ![t].names = names,
                                           ![t].n = @ + 1,
                                           ![t].trace_setting = {}]
                     /\ last' = last
    /\ UNCHANGED <<global_default_, traces, mu_, calls>>

\* A step of the UpdateTraceSetting call thread t is in.
UpdateStep(t) ==
    UpdateLockW(t) \/ UpdateMerge(t) \/ UpdateLockR(t) \/ UpdateSwap(t)

-----------------------------------------------------------------------------
(* TraceManager::TraceRelease of the last trace of a Trace, on a thread *)

\* The engine calls TraceRelease on thread t for the root trace of Trace
\* tr, which its holder has let go.
ReleaseCall(t, tr) ==
    /\ pc[t] = "idle"
    /\ tr.trace_userp_ /\ ~tr.held_
    /\ ~InFlight(tr, FALSE)
    /\ pc' = [pc EXCEPT ![t] = "release"]
    /\ loc' = [loc EXCEPT ![t] = [IdleLoc EXCEPT !.ts = {tr.trace_id_}]]
    /\ UNCHANGED <<global_default_, global_setting_, model_settings_,
                   fallback_used_models_, trace_files_, heap, files, disk,
                   traces, mu_, tally, calls, last>>

\* delete userp: ~Trace calls WriteTrace, which takes mu_ of the setting,
\* and the Trace goes, and its setting with it if nothing else holds that.
ReleaseStep(t) ==
    /\ pc[t] = "release"
    /\ \E tr \in {Running(t)} :
          /\ MuFree(tr.setting_)
          /\ Released(tr, [tr EXCEPT !.inference_traces_ = @ \ {tr.trace_id_},
                                     !.trace_userp_ = FALSE],
                      "TraceRelease", tr.trace_id_)
    /\ pc' = [pc EXCEPT ![t] = "idle"]
    /\ loc' = [loc EXCEPT ![t] = IdleLoc]
    /\ UNCHANGED <<global_default_, mu_>>

-----------------------------------------------------------------------------
(* Sequential callers: updates and sampling calls, one after another *)

StoreUpdate ==
    /\ ~Crashed
    /\ calls.total < MaxCalls
    /\ \E n \in Names, u \in NewSettings : UpdateTraceSetting(n, u)

StoreSample ==
    /\ ~Crashed
    /\ calls.total < MaxCalls
    /\ \E n \in Names, ok \in BOOLEAN : SampleTraceCall(n, ok)

NextStore == StoreUpdate \/ StoreSample

SpecStore == Init /\ [][NextStore]_vars

-----------------------------------------------------------------------------
(* Concurrent callers: samplers and readers on two threads, and updates *)

\* The updates made while the threads run.
ConcSettings ==
    {SetField("rate_", 2), SetField("level_", TRITONSERVER_TRACE_LEVEL_TIMESTAMPS),
     SetField("count_", 1)}

ConcUpdate ==
    /\ ~Crashed
    /\ calls.update < MaxConcUpdates
    /\ \E n \in Names, u \in ConcSettings : UpdateTraceSetting(n, u)

ConcSample ==
    /\ ~Crashed
    /\ \E t \in Threads :
        \/ /\ calls.sample < MaxSample
           /\ \E n \in Names : SampleResolve(t, n)
        \/ SampleLock(t)
        \/ SampleLoad(t)
        \/ SampleStore(t)
        \/ \E ok \in BOOLEAN : SampleNew(t, ok)

ConcGet ==
    /\ ~Crashed
    /\ \E t \in Threads :
        \/ /\ calls.get < MaxGet
           /\ \E n \in Names : GetResolve(t, n)
        \/ GetRead(t)
        \/ GetReturn(t)

NextSampler == ConcUpdate \/ ConcSample

SpecSampler == Init /\ [][NextSampler]_vars

NextReader == ConcUpdate \/ ConcGet

SpecReader == Init /\ [][NextReader]_vars

-----------------------------------------------------------------------------
(* Sessions: sampled traces, their activity and release, and updates
   meanwhile; every call is made while no other runs *)

\* The settings the server is started with in the session specification.
SessionSettings ==
    {<<TRITONSERVER_TRACE_LEVEL_TIMESTAMPS, 1, 0, 0, "f", TRACE_MODE_TRITON>>,
     <<TRITONSERVER_TRACE_LEVEL_TIMESTAMPS, 1, 0, 0, "", TRACE_MODE_OPENTELEMETRY>>}

InitSession == \E c \in SessionSettings : TraceManager(c)

\* The updates made while sessions run.
SessionUpdates ==
    {SetField("filepath_", "g"), ClearField("clear_filepath_"),
     SetField("rate_", 0)}

SessUpdate ==
    /\ calls.total < MaxSessCalls
    /\ \E n \in Names, u \in SessionUpdates : UpdateTraceSetting(n, u)

SessSample ==
    /\ calls.total < MaxSessCalls
    /\ calls.traces < Cardinality(TraceIds)
    /\ SampleTraceCall("m", TRUE)

SessActivity ==
    /\ calls.total < MaxSessCalls
    /\ \E tr \in traces : \E id \in tr.inference_traces_ :
          TraceActivityCall(tr, id, "QUEUE_START")

SessRelease ==
    /\ calls.total < MaxSessCalls
    /\ \E tr \in traces :
          \/ \E id \in tr.inference_traces_ : TraceRelease(tr, id)
          \/ TraceReset(tr)

NextSession == SessUpdate \/ SessSample \/ SessActivity \/ SessRelease

SpecSession == InitSession /\ [][NextSession]_vars

-----------------------------------------------------------------------------
(* Flushes: sessions of the initial global setting, sampled and released *)

\* The settings the server is started with in the flush specification.
FlushSettings ==
    {<<TRITONSERVER_TRACE_LEVEL_TIMESTAMPS, 1, 0, 2, "f", TRACE_MODE_TRITON>>,
     <<TRITONSERVER_TRACE_LEVEL_TIMESTAMPS, 1, 0, 0, "f", TRACE_MODE_TRITON>>,
     <<TRITONSERVER_TRACE_LEVEL_TIMESTAMPS, 1, 1, 0, "f", TRACE_MODE_TRITON>>,
     <<TRITONSERVER_TRACE_LEVEL_TIMESTAMPS, 1, 3, 0, "f", TRACE_MODE_TRITON>>,
     <<TRITONSERVER_TRACE_LEVEL_TIMESTAMPS, 2, 1, 0, "f", TRACE_MODE_TRITON>>,
     <<TRITONSERVER_TRACE_LEVEL_TIMESTAMPS, 2, 2, 1, "f", TRACE_MODE_TRITON>>}

InitFlush == \E c \in FlushSettings : TraceManager(c)

FlushSample ==
    /\ calls.total < MaxFlushCalls
    /\ calls.traces < Cardinality(TraceIds)
    /\ SampleTraceCall("", TRUE)

FlushActivity ==
    /\ calls.total < MaxFlushCalls
    /\ \E tr \in traces : TraceActivityCall(tr, tr.trace_id_, "QUEUE_START")

FlushRelease ==
    /\ calls.total < MaxFlushCalls
    /\ \E tr \in traces :
          \/ TraceRelease(tr, tr.trace_id_)
          \/ TraceReset(tr)

NextFlush == FlushSample \/ FlushActivity \/ FlushRelease

SpecFlush == InitFlush /\ [][NextFlush]_vars

-----------------------------------------------------------------------------
(* Updates: UpdateTraceSetting calls of two threads, step by step *)

\* The updates the two threads make.
LockUpdates ==
    {SetField("rate_", 2), SetField("level_", TRITONSERVER_TRACE_LEVEL_TIMESTAMPS),
     SetField("filepath_", "g"), SetField("rate_", 0)}

UpdatesCall ==
    /\ calls.update < MaxUpdates
    /\ \E t \in Threads, n \in Names, u \in LockUpdates : UpdateCall(t, n, u)

UpdatesStep == \E t \in Threads : UpdateStep(t)

NextUpdates == UpdatesCall \/ UpdatesStep

SpecUpdates == Init /\ [][NextUpdates]_vars

-----------------------------------------------------------------------------
(* Batches: settings superseded while their traces are collected *)

\* The settings the server is started with in the batch specification: a
\* budget that is not used up, so that the stream is written when the
\* setting goes, and a log frequency of two traces.
BatchSettings ==
    {<<TRITONSERVER_TRACE_LEVEL_TIMESTAMPS, 1, 3, 0, "f", TRACE_MODE_TRITON>>,
     <<TRITONSERVER_TRACE_LEVEL_TIMESTAMPS, 1, 0, 2, "f", TRACE_MODE_TRITON>>}

InitBatch == \E c \in BatchSettings : TraceManager(c)

\* The updates that supersede the global setting: one that keeps its file,
\* and one that gives it another.
BatchUpdates == {SetField("rate_", 1), SetField("filepath_", "g")}

BatchUpdate ==
    /\ calls.total < MaxBatchCalls
    /\ \E u \in BatchUpdates : UpdateTraceSetting("", u)

BatchSample ==
    /\ calls.total < MaxBatchCalls
    /\ calls.traces < Cardinality(TraceIds)
    /\ SampleTraceCall("", TRUE)

BatchActivity ==
    /\ calls.total < MaxBatchCalls
    /\ calls.events < 1
    /\ \E tr \in traces : TraceActivityCall(tr, tr.trace_id_, "QUEUE_START")

BatchRelease ==
    /\ calls.total < MaxBatchCalls
    /\ \E tr \in traces :
          \/ TraceRelease(tr, tr.trace_id_)
          \/ TraceReset(tr)

NextBatch == BatchUpdate \/ BatchSample \/ BatchActivity \/ BatchRelease

SpecBatch == InitBatch /\ [][NextBatch]_vars

-----------------------------------------------------------------------------
(* Locks: updates, sampling, reads, callbacks and releases of two threads *)

\* A thread starts a call.
LocksCall ==
    /\ calls.total < MaxLockCalls
    /\ \E t \in Threads :
          \/ \E u \in BatchUpdates : UpdateCall(t, "", u)
          \/ calls.traces < Cardinality(TraceIds) /\ SampleResolve(t, "")
          \/ calls.get < MaxGet /\ GetResolve(t, "")
          \/ \E tr \in traces :
                /\ \A u \in Threads : pc[u] = "release" => loc[u].ts # {tr.trace_id_}
                /\ TraceActivity(t, tr, tr.trace_id_, "QUEUE_START")
          \/ \E tr \in traces : ReleaseCall(t, tr)

\* The holder of a Trace lets it go.
LocksReset ==
    \E tr \in traces : tr.trace_userp_ /\ TraceReset(tr)

\* The steps of the call thread t is in that take a lock or run under one.
Guarded(t) ==
    \/ UpdateLockW(t) \/ UpdateLockR(t) \/ UpdateSwap(t)
    \/ SampleLock(t) \/ SampleLoad(t) \/ SampleStore(t) \/ SampleNew(t, TRUE)
    \/ GetRead(t) \/ GetReturn(t)
    \/ Write(t)
    \/ ReleaseStep(t)

\* The next step of the call thread t is in.
Continue(t) == UpdateMerge(t) \/ Guarded(t)

LocksStep == \E t \in Threads : Continue(t)

NextLocks == LocksCall \/ LocksReset \/ LocksStep

SpecLocks == InitBatch /\ [][NextLocks]_vars

\* The merge of an update takes no lock: at "update_merge" UpdateMerge(t) is
\* always possible, and it is the one step that moves thread t from there.
MergeNeverBlocked ==
    \A t \in Threads : pc[t] = "update_merge" => ENABLED UpdateMerge(t)

\* Thread t leaves the merge of its update: it returns the error or goes on
\* to r_mu_.
MergeEnds(t) ==
    /\ pc[t] = "update_merge"
    /\ \E p \in {"idle", "update_lock_r"} : pc' = [pc EXCEPT ![t] = p]

\* A running thread is scheduled: a thread that can take a step of its call
\* takes one. A thread waiting for a mutex has no step while it is held.
FairLocks ==
    SpecLocks /\ \A t \in Threads : WF_vars(Guarded(t)) /\ WF_pc(MergeEnds(t))

-----------------------------------------------------------------------------
(* Activity: the callbacks of one session, on two threads, step by step *)

\* The setting the server is started with in the activity specification.
ActivitySettings ==
    {<<TRITONSERVER_TRACE_LEVEL_TIMESTAMPS, 1, 0, 0, "f", TRACE_MODE_TRITON>>,
     <<TRITONSERVER_TRACE_LEVEL_TIMESTAMPS, 1, 0, 0, "", TRACE_MODE_OPENTELEMETRY>>}

InitActivity == \E c \in ActivitySettings : TraceManager(c)

\* The tensors the engine reports: (datatype, byte_size), one element each.
TensorInputs == {<<"INT32", 4>>, <<"BYTES", 0>>, <<"INVALID", 0>>}

ActSample ==
    /\ calls.traces < 1
    /\ SampleTraceCall("", TRUE)

ActEvent ==
    /\ calls.events < MaxEvents
    /\ \E t \in Threads, tr \in traces :
          \/ \E id \in tr.inference_traces_, a \in {"REQUEST_START", "QUEUE_START"} :
                TraceActivity(t, tr, id, a)
          \/ \E id \in tr.inference_traces_,
                a \in {"TENSOR_QUEUE_INPUT", "REQUEST_START"}, d \in TensorInputs :
                TraceTensorActivity(t, tr, id, a, d[1], d[2])
          \/ CaptureTimestamp(t, tr)

ActWrite == \E t \in Threads : Write(t) \/ AddEvent(t)

ActRelease ==
    \E tr \in traces :
        \/ TraceRelease(tr, tr.trace_id_)
        \/ TraceReset(tr)

NextActivity == ActSample \/ ActEvent \/ ActWrite \/ ActRelease

SpecActivity == InitActivity /\ [][NextActivity]_vars

-----------------------------------------------------------------------------
(* Vocabulary of the properties *)

AllFields ==
    {"level_", "rate_", "count_", "log_frequency_", "filepath", "mode_",
     "config_map_"}

SamplingFields == {"level_", "rate_", "count_", "log_frequency_", "filepath"}

\* The specified flag and the value of field F of setting ts.
FlagOf(ts, F) ==
    IF F = "filepath" THEN ts.filepath_specified_ ELSE ts[F \o "specified_"]

ValueOf(fs, ts, F) == IF F = "filepath" THEN FileName(fs, ts.file_) ELSE ts[F]

\* Whether update u clears, or sets, field F.
Clears(u, F) ==
    CASE F = "filepath" -> u.clear_filepath_
      [] F = "config_map_" -> FALSE
      [] OTHER -> u["clear_" \o F]

Sets(u, F) == IF F = "filepath" THEN u.filepath_ ELSE u[F]

PartlySpecified(ts) ==
    /\ \E F \in SamplingFields : FlagOf(ts, F)
    /\ \E F \in SamplingFields : ~FlagOf(ts, F)

\* The step is a call of UpdateTraceSetting; last' tells which.
IsUpdate == calls'.update = calls.update + 1

\* The flags and the values the call of this step merges for its target.
StepFlags ==
    MergeFlags(CurrentSetting(Store, last'.name) # {},
               heap[Deref(CurrentSetting(Store, last'.name))],
               last'.new_setting)

StepValues(f) ==
    MergeValues(files, f,
                heap[Deref(CurrentSetting(Store, last'.name))],
                heap[FallbackSetting(Store, last'.name)], last'.new_setting)

\* What the name of the call of this step resolves to before and after it.
Before == ResolveSetting(last'.name)

After == ResolveIn(model_settings_', global_setting_', last'.name)

\* The call of this step, which merged flags f, constructs a TraceSetting
\* for its target.
StepConstructs(f) == ~(last'.name # "" /\ NoneSpecified(f))

RateReason == "Attempting to set invalid trace setting :sample rate must be non-zero"

-----------------------------------------------------------------------------
(* C1 *)

\* C1: every unspecified field of a model's setting equals the global
\* setting's field, and every unspecified field of the global setting equals
\* the default's, in every state reached by updates and sampling calls.
C1_FallbackMirror ==
    /\ \A M \in DOMAIN model_settings_ : \A F \in AllFields :
          ~FlagOf(heap[model_settings_[M]], F) =>
              ValueOf(files, heap[model_settings_[M]], F)
                  = ValueOf(files, heap[global_setting_], F)
    /\ \A F \in AllFields :
          ~FlagOf(heap[global_setting_], F) =>
              ValueOf(files, heap[global_setting_], F)
                  = ValueOf(files, heap[global_default_], F)

-----------------------------------------------------------------------------
(* C2 *)

\* The count a setting was constructed with: each trace it budgets moves one
\* from count_ to created_.
ConstructedCount(ts) == ts.count_ + ts.created_

\* Some thread is inside the critical section of SampleTrace on setting id.
InCriticalSection(id) ==
    \E t \in Threads : pc[t] \in {"sample_load", "sample_store"} /\ HeldBy(t) = id

\* C2: for a valid setting with unlimited count, whenever no call is inside
\* the critical section, sample_ is the number N of opportunities completed
\* and floor(N / rate_) of them decided to create a trace; a call that
\* decided to create one saw a multiple of rate_.
C2_ExactRate ==
    /\ \A id \in DOMAIN heap :
          (Valid(heap[id]) /\ ConstructedCount(heap[id]) = 0
              /\ ~InCriticalSection(id))
          => /\ heap[id].sample_ = tally[id].opps
             /\ tally[id].decisions = tally[id].opps \div heap[id].rate_
    /\ \A t \in Threads :
          (pc[t] = "sample_new" /\ ConstructedCount(heap[HeldBy(t)]) = 0)
          => (loc[t].sample + 1) % heap[HeldBy(t)].rate_ = 0

\* Two opportunities of a rate 2 setting are done, one created a trace, and
\* both threads are in further calls on it, one inside the critical section.
C2_Witness ==
    \E id \in DOMAIN heap :
        /\ Valid(heap[id]) /\ ConstructedCount(heap[id]) = 0
        /\ heap[id].rate_ = 2
        /\ tally[id].opps = 2 /\ tally[id].decisions = 1
        /\ \E t \in Threads : pc[t] = "sample_store" /\ HeldBy(t) = id

-----------------------------------------------------------------------------
(* C3 *)

\* C3: a setting constructed with count C > 0 never has more than C traces
\* created from it.
C3_BudgetBound ==
    \A id \in DOMAIN heap :
        ConstructedCount(heap[id]) > 0
        => tally[id].sessions <= ConstructedCount(heap[id])

-----------------------------------------------------------------------------
(* C4 *)

C4_Step ==
    IsUpdate =>
        \A f \in {StepFlags} : \A v \in {StepValues(f)} :
            (StepConstructs(f) /\ v.rate = 0
                /\ v.level # TRITONSERVER_TRACE_LEVEL_DISABLED)
            => /\ last'.err # ""
               /\ After = Before
               /\ heap'[After] = heap[Before]
               /\ FileName(files', heap'[After].file_)
                     = FileName(files, heap[Before].file_)

-----------------------------------------------------------------------------
(* C5 *)

C5_Step ==
    (IsUpdate /\ last'.err # "")
    => /\ global_setting_' = global_setting_
       /\ model_settings_' = model_settings_
       /\ fallback_used_models_' = fallback_used_models_
       /\ \A i \in {global_setting_} \cup {model_settings_[M] : M \in DOMAIN model_settings_} :
             i \in DOMAIN heap' /\ heap'[i] = heap[i]

\* C5: when UpdateTraceSetting returns an error the global setting, every
\* model's setting and fallback_used_models_ are as before the call.
C5_ErrorLeavesStore == [][C5_Step]_vars

-----------------------------------------------------------------------------
(* C6 *)

C6_Step ==
    (IsUpdate /\ last'.name = "" /\ last'.err = "")
    => \A M \in DOMAIN model_settings_ :
          PartlySpecified(heap[model_settings_[M]]) =>
             /\ M \in fallback_used_models_
             /\ M \in DOMAIN model_settings_'
             /\ \A F \in SamplingFields :
                   IF FlagOf(heap[model_settings_[M]], F)
                      THEN ValueOf(files', heap'[model_settings_'[M]], F)
                              = ValueOf(files, heap[model_settings_[M]], F)
                      ELSE ValueOf(files', heap'[model_settings_'[M]], F)
                              = ValueOf(files', heap'[global_setting_'], F)

\* C6: a model whose setting has some but not all sampling fields specified
\* is in fallback_used_models_, and a successful global update leaves each
\* field it specified at its value and gives every other sampling field the
\* new global value.
C6_GlobalUpdateReachesModel == [][C6_Step]_vars

-----------------------------------------------------------------------------
(* C7 *)

\* C7: every name in fallback_used_models_ has a setting in model_settings_
\* with at least one sampling field unspecified.
C7_FallbackHasEntry ==
    \A M \in fallback_used_models_ :
        /\ M \in DOMAIN model_settings_
        /\ \E F \in SamplingFields : ~FlagOf(heap[model_settings_[M]], F)

-----------------------------------------------------------------------------
(* C8 *)

C8_Step ==
    (IsUpdate /\ last'.name # "" /\ last'.err = "")
    => \A M \in {last'.name} : \A f \in {StepFlags} :
           /\ AllSpecified(f) =>
                /\ M \in DOMAIN model_settings_'
                /\ M \notin fallback_used_models_'
                /\ \A F \in SamplingFields : FlagOf(heap'[model_settings_'[M]], F)
           /\ NoneSpecified(f) =>
                /\ M \notin DOMAIN model_settings_'
                /\ After = global_setting_'
           /\ (~AllSpecified(f) /\ ~NoneSpecified(f)) =>
                /\ M \in DOMAIN model_settings_'
                /\ M \in fallback_used_models_'
                /\ PartlySpecified(heap'[model_settings_'[M]])

\* C8: after a successful update of model M, with all sampling fields
\* specified M has a setting and is not in fallback_used_models_; with none
\* M has no setting and resolves to the global setting; otherwise M has a
\* setting and is in fallback_used_models_.
C8_ModelUpdateOutcome == [][C8_Step]_vars

\* A successful model update that set only the mode: the model's setting was
\* discarded and the name resolves to the global setting.
C8_Witness ==
    /\ last.op = "update"
    /\ last.name \in ModelNames
    /\ last.err = ""
    /\ last.new_setting.mode_ # {}
    /\ last.name \notin DOMAIN model_settings_
    /\ calls.update > 1

-----------------------------------------------------------------------------
(* C9 *)

C9_Step ==
    (IsUpdate /\ last'.err = "" /\ StepConstructs(StepFlags))
    => LET new == heap'[After]
           u == last'.new_setting
       IN  /\ \A F \in AllFields :
                 FlagOf(new, F)
                    = IF Clears(u, F) THEN FALSE
                      ELSE \/ /\ CurrentSetting(Store, last'.name) # {}
                              /\ FlagOf(heap[Deref(CurrentSetting(Store, last'.name))], F)
                           \/ Sets(u, F) # {}
           /\ u.config_map_ # {} => new.config_map_ = Deref(u.config_map_)

\* C9: after an accepted update every field of the new setting, mode and
\* config_map included, is unspecified if the update cleared it and else is
\* specified iff it was specified before or the update set it; a config_map
\* the update set is the new setting's config_map.
C9_SpecifiedRule == [][C9_Step]_vars

-----------------------------------------------------------------------------
(* C10 *)

\* C10: whatever updates run meanwhile, what a reader has read so far is
\* what the one setting it resolved holds, and that setting is one an update
\* published (or the initial global one), never the default.
C10_OneSnapshot ==
    \A t \in Threads :
        pc[t] \in {"get", "get_return"}
        => /\ HeldBy(t) \in DOMAIN heap \ {global_default_}
           /\ \A k \in 1..Len(loc[t].out) :
                 loc[t].out[k] = ReadField(heap[HeldBy(t)], k)

\* A reader has read all six fields of a setting an update replaced while it
\* was reading, and the rate it read is not the one the name resolves to now.
C10_Witness ==
    \E t \in Threads :
        /\ pc[t] = "get_return"
        /\ HeldBy(t) # ResolveSetting(loc[t].model_name)
        /\ loc[t].out[2] # heap[ResolveSetting(loc[t].model_name)].rate_

-----------------------------------------------------------------------------
(* Vocabulary of the session properties *)

\* The tokens of a text.
TokensOf(text) == {text[j] : j \in DOMAIN text}

\* The fragments recorded in the streams of a Trace.
Fragments(streams) ==
    UNION {TokensOf(streams[i]) : i \in DOMAIN streams} \ {Comma}

\* What a Session relies on in its setting: level, rate, log frequency, the
\* TraceFile and its name, and the mode.
PolicyOf(h, fs, id) ==
    <<h[id].level_, h[id].rate_, h[id].log_frequency_, h[id].file_,
      FileName(fs, h[id].file_), h[id].mode_>>

\* The step destroys a Trace; last'.out tells which, and what became of it.
IsTeardown == calls'.teardowns = calls.teardowns + 1

\* The step is a SampleTrace call that returns a Trace.
IsCreation == calls'.traces = calls.traces + 1

\* The text of the files of name file_name on disk dk.
FilesOf(dk, file_name) ==
    UNION {TokensOf(dk[n]) : n \in {m \in DOMAIN dk : m[1] = file_name}}

-----------------------------------------------------------------------------
(* C11 *)

C11_Step ==
    /\ IsCreation =>
          \E tr \in traces' \ traces : tr.setting_ = ResolveSetting(last'.name)
    /\ \A tr \in traces : \A tr2 \in traces' :
          tr2.trace_id_ = tr.trace_id_ =>
              /\ tr2.setting_ = tr.setting_
              /\ tr.setting_ \in DOMAIN heap'
              /\ PolicyOf(heap', files', tr.setting_)
                    = PolicyOf(heap, files, tr.setting_)
    /\ IsTeardown =>
          \A tr \in {last'.out[2]} :
              heap[tr.setting_].mode_ = TRACE_MODE_TRITON =>
                  /\ Fragments(tr.streams_) \subseteq
                        (IF tr.setting_ \in DOMAIN heap'
                            THEN TokensOf(heap'[tr.setting_].trace_stream_)
                            ELSE {})
                        \cup FilesOf(disk', FileName(files, heap[tr.setting_].file_))
                  /\ \A id \in DOMAIN heap' \ {tr.setting_} :
                        Fragments(tr.streams_)
                            \cap TokensOf(heap'[id].trace_stream_) = {}

\* C11: a Trace returned by SampleTrace(model) has the setting that model
\* resolved to at the call; every later step, updates included, leaves the
\* Trace's setting_ and that setting's level, rate, log frequency, file and
\* mode as they were; and ~Trace hands the streams to that setting, so that
\* they end in its stream or in a file of its name and in no other stream.
C11_SessionKeepsSetting == [][C11_Step]_vars

\* A Trace with fragments was destroyed after an update superseded its
\* setting: the setting went with the Trace.
C11_Witness ==
    /\ last.op \in {"TraceRelease", "reset"}
    /\ last.out[1] \in {"flushed", "buffered"}
    /\ Fragments(last.out[2].streams_) # {}
    /\ calls.update > 0
    /\ last.out[2].setting_ \notin DOMAIN heap

-----------------------------------------------------------------------------
(* C12 *)

\* Whether token k is text of a callback, and not a "," or a bracket.
IsFragment(k) == k \notin {Comma, LeftBracket, RightBracket}

\* The fragments of `text` are in the order of their calls and joined by
\* commas: no "," at either end, no two in a row, and two pieces of text
\* with nothing between them are of one call.
CommaJoined(text) ==
    /\ text # <<>> => IsFragment(text[1]) /\ IsFragment(text[Len(text)])
    /\ \A i \in 1..(Len(text) - 1) :
          /\ ~(text[i] = Comma /\ text[i + 1] = Comma)
          /\ IsFragment(text[i]) /\ IsFragment(text[i + 1])
                => text[i].n = text[i + 1].n
    /\ \A i, j \in DOMAIN text :
          i < j /\ IsFragment(text[i]) /\ IsFragment(text[j])
             /\ text[i].tr = text[j].tr /\ text[i].id = text[j].id
                => text[i].n <= text[j].n

\* The fragments of one trace id are one run of `text`.
Contiguous(text) ==
    \A i, j, k \in DOMAIN text :
        i < j /\ j < k /\ IsFragment(text[i]) /\ IsFragment(text[j])
           /\ IsFragment(text[k])
           /\ text[i].tr = text[k].tr /\ text[i].id = text[k].id
              => text[j].tr = text[i].tr /\ text[j].id = text[i].id

\* The text of a file between its brackets.
Inside(text) == SubSeq(text, 2, Len(text) - 1)

\* C12: in local mode, however the TraceActivity, TraceTensorActivity and
\* CaptureTimestamp calls of two threads on one Trace interleave, the stream
\* of a trace id holds only text of that id, call after call in the order of
\* the calls and joined by commas, and the file the Trace is exported to
\* holds the text of each trace id as one such run.
C12_FragmentsInOrder ==
    /\ \A tr \in traces : \A id \in DOMAIN tr.streams_ :
          tr.mtx_ = 0 =>
              /\ CommaJoined(tr.streams_[id])
              /\ \A k \in TokensOf(tr.streams_[id]) :
                    IsFragment(k) => k.id = id /\ k.tr = tr.trace_id_
    /\ \A name \in DOMAIN disk :
          CommaJoined(Inside(disk[name])) /\ Contiguous(Inside(disk[name]))

\* A file holds the text of three calls, two of them for one trace id and
\* one for another.
C12_Witness ==
    \E name \in DOMAIN disk :
        \E k1, k2, k3 \in TokensOf(disk[name]) :
            /\ IsFragment(k1) /\ IsFragment(k2) /\ IsFragment(k3)
            /\ k1.id = k2.id /\ k1.n # k2.n
            /\ k3.id # k1.id

-----------------------------------------------------------------------------
(* C13 *)

\* The elements of a JSON array: objects joined by single commas, and the
\* object of a tensor complete.
Elements(text) ==
    /\ text # <<>> => text[1] # Comma /\ text[Len(text)] # Comma
    /\ \A i \in 1..(Len(text) - 1) : ~(text[i] = Comma /\ text[i + 1] = Comma)
    /\ \A i \in DOMAIN text :
          /\ IsFragment(text[i]) \/ text[i] = Comma
          /\ text[i].k = "tensor_open" =>
                /\ i + 2 <= Len(text)
                /\ text[i + 1].k = "tensor_data"
                /\ text[i + 2].k = "tensor_close"

\* A JSON array: "[" first, "]" last, the elements between.
WellFormed(text) ==
    /\ Len(text) >= 2
    /\ text[1] = LeftBracket
    /\ text[Len(text)] = RightBracket
    /\ Elements(Inside(text))

\* The file is closed: an indexed file always is, and the main file of a
\* name once no TraceFile of that name has it open.
Closed(name) ==
    \/ name[2] >= 0
    \/ \A f \in DOMAIN files :
          files[f].file_name_ = name[1] => files[f].first_write_

\* C13: every closed file, the main file and each indexed file, holds a
\* well-formed JSON array, whatever traces were sampled and released, those
\* with no recorded event included.
C13_FilesWellFormed ==
    \A name \in DOMAIN disk : Closed(name) => WellFormed(disk[name])

-----------------------------------------------------------------------------
(* C14, C15, C16 *)

\* The setting of the Trace this step destroys, as it was before the step.
TornSetting == heap[last'.out[2].setting_]

\* The count the setting was given is 0: nothing was ever taken from it.
Unlimited(ts) == ts.count_ = 0 /\ ts.created_ = 0

C14_Step ==
    IsTeardown =>
        \A ts \in {TornSetting} :
            /\ ts.mode_ = TRACE_MODE_TRITON
            /\ ts.rate_ = 1
            /\ Unlimited(ts)
            /\ ts.log_frequency_ > 0
            /\ disk' # disk
            => ts.sample_in_stream_ + 1 >= ts.log_frequency_

\* C14: with a local setting of rate 1, unlimited count and log frequency
\* F > 0, collecting a trace writes a file only if with it F traces have been
\* collected since the last file was written.
C14_FlushEveryF == [][C14_Step]_vars

\* C15: once a local setting with a finite count has its budget consumed and
\* every trace created from it collected, its in-memory stream holds no
\* fragment: collecting the last trace wrote them to a file.
C15_FinalFlush ==
    \A id \in DOMAIN heap :
        /\ heap[id].mode_ = TRACE_MODE_TRITON
        /\ heap[id].created_ > 0
        /\ heap[id].count_ = 0
        /\ heap[id].collected_ = heap[id].created_
        /\ \A tr \in traces : tr.setting_ # id
        => TokensOf(heap[id].trace_stream_) \ {Comma} = {}

C16_Step ==
    IsTeardown =>
        \A ts \in {TornSetting} :
            /\ ts.mode_ = TRACE_MODE_TRITON
            /\ ts.log_frequency_ = 0
            /\ ts.count_ > 0 \/ Unlimited(ts)
            => disk' = disk

\* C16: with a local setting of log frequency 0, collecting a trace writes
\* no file while the budget is not exhausted, and never with unlimited count.
C16_NoFlushBeforeExhaustion == [][C16_Step]_vars

-----------------------------------------------------------------------------
(* C17 *)

\* What ~Trace exports of Trace tr in this step: its setting's stream and
\* the files of its name afterwards.
Exported(tr) ==
    (IF tr.setting_ \in DOMAIN heap'
        THEN TokensOf(heap'[tr.setting_].trace_stream_) ELSE {})
    \cup FilesOf(disk', FileName(files, heap[tr.setting_].file_))

C17_Step ==
    /\ calls'.teardowns + Cardinality(traces') = calls'.traces
    /\ IsTeardown =>
          \A tr \in {last'.out[2]} :
              /\ tr \in traces
              /\ \A tr2 \in traces' : tr2.trace_id_ # tr.trace_id_
              /\ last'.op = "TraceRelease" => last'.out[3] = tr.trace_id_
              /\ last'.op # "TraceRelease" =>
                    tr.trace_id_ \notin tr.inference_traces_
              /\ heap[tr.setting_].mode_ = TRACE_MODE_TRITON =>
                    /\ Fragments(tr.streams_) \subseteq Exported(tr)
                    /\ \A n \in tr.sibling_ :
                          \E k \in Exported(tr) :
                              k.n = n /\ k.tr = tr.trace_id_
              /\ heap[tr.setting_].mode_ = TRACE_MODE_OPENTELEMETRY =>
                    /\ tr.sibling_ # {} => tr.trace_span_ = "started"
                    /\ tr.trace_span_ = "started" => last'.out[1] = "span_ended"
    /\ last'.op = "TraceRelease" /\ last'.out[3] \notin TraceIds
          /\ calls'.total # calls.total =>
             /\ ~IsTeardown
             /\ \E tr \in traces, tr2 \in traces' :
                   /\ tr2.trace_id_ = tr.trace_id_
                   /\ tr2.streams_ = tr.streams_
                   /\ tr2.trace_userp_ = tr.trace_userp_
                   /\ tr2.inference_traces_ = tr.inference_traces_ \ {last'.out[3]}

\* C17: every Trace is destroyed at most once (each one created is alive or
\* was destroyed once); the release of a trace with a parent destroys none
\* and leaves the streams alone; a Trace is destroyed only with or after the
\* release of its root trace; and what was recorded after the release of the
\* child and before that of the root is exported with the rest.
C17_TeardownOnceAtRoot == [][C17_Step]_vars

\* A Trace was destroyed whose child trace had been released before its
\* root, with activity recorded in between and exported.
C17_Witness ==
    /\ last.op \in {"TraceRelease", "reset"}
    /\ last.out[1] \in {"flushed", "buffered"}
    /\ last.out[2].sibling_ # {}
    /\ \E name \in DOMAIN disk : \E k \in TokensOf(disk[name]) :
          k.n \in last.out[2].sibling_ /\ k.tr = last.out[2].trace_id_

-----------------------------------------------------------------------------
(* C18 *)

\* A TraceTensorActivity call returns in this step with its event dropped
\* by the switch on the datatype.
DropsTensor ==
    /\ last' # last
    /\ last'.op = "TraceTensorActivity"
    /\ last'.out[1] = "dropped"
    /\ \E t \in Threads :
          /\ pc[t] = "write" /\ pc'[t] = "idle"
          /\ TensorReturns(loc[t].datatype, loc[t].byte_size)

C18_Step ==
    DropsTensor =>
        \A tr \in traces' :
            tr.trace_id_ = last'.out[2] => tr.streams_ = last'.out[5]

\* C18: when TraceTensorActivity returns from the switch on the datatype
\* (TRITONSERVER_TYPE_INVALID, or a BYTES element that does not fit in
\* byte_size), the streams of the Trace are as they were before the call: no
\* "," and no part of the event was written.
C18_DroppedTensorEmitsNothing == [][C18_Step]_vars

-----------------------------------------------------------------------------
(* C19 *)

\* Two settings of one file path have the same TraceFile.
C19_Sharing ==
    \A i, j \in DOMAIN heap :
        FileName(files, heap[i].file_) = FileName(files, heap[j].file_)
            => heap[i].file_ = heap[j].file_

\* The names of the TraceFile objects fs.
FileNames(fs) == {fs[f].file_name_ : f \in DOMAIN fs}

C19_Step ==
    IsUpdate =>
        \A f \in DOMAIN files' :
            files'[f].file_name_ \notin FileNames(files)
                => files'[f] = TraceFile(files'[f].file_name_)

\* C19: in every state two live settings (of the store or of a Trace) with
\* the same file path have the same TraceFile; and when no live setting has
\* a TraceFile of a path, the update that names the path gets a new
\* TraceFile, which has written nothing and whose index is 0.
C19_SharedAndFresh == [](C19_Sharing) /\ [][C19_Step]_vars

\* An update set the path "g" again after the TraceFile that wrote g.0 was
\* destroyed: the TraceFile of "g" has index 0.
C19_Witness ==
    /\ last.op = "update"
    /\ last.new_setting = SetField("filepath_", "g")
    /\ IndexFile("g", 0) \in DOMAIN disk
    /\ \E f \in DOMAIN files : files[f] = TraceFile("g")
    /\ \E i, j \in DOMAIN heap : i # j /\ heap[i].file_ = heap[j].file_

-----------------------------------------------------------------------------
(* C20 *)

\* The setting is not valid: tracing disabled, rate 0, or local mode with
\* no file name.
NotValid(ts) ==
    \/ ts.level_ = TRITONSERVER_TRACE_LEVEL_DISABLED
    \/ ts.rate_ = 0
    \/ ts.mode_ = TRACE_MODE_TRITON /\ FileName(files, ts.file_) = ""

\* No call has counted on, taken from or made a Trace of a setting that is
\* not valid.
C20_Untouched ==
    \A id \in DOMAIN heap :
        NotValid(heap[id]) =>
            /\ heap[id].sample_ = 0
            /\ heap[id].created_ = 0
            /\ tally[id].sessions = 0
            /\ \A tr \in traces : tr.setting_ # id

C20_Step ==
    calls'.sample = calls.sample + 1 =>
        \A id \in {ResolveSetting(last'.name)} :
            NotValid(heap[id]) =>
                /\ last'.out = <<"null">>
                /\ traces' = traces
                /\ id \in DOMAIN heap'
                /\ heap'[id].sample_ = heap[id].sample_
                /\ heap'[id].count_ = heap[id].count_
                /\ heap'[id].created_ = heap[id].created_

\* C20: a SampleTrace call for a model whose setting is not valid returns no
\* Trace and leaves sample_, count_ and created_ of the setting as they were,
\* however often it is called, the settings given at startup included.
C20_InvalidSamplesNothing == [](C20_Untouched) /\ [][C20_Step]_vars

\* SampleTrace was called twice and returned no Trace, the setting of the
\* model being the invalid one given at startup.
C20_Witness ==
    /\ last.op = "sample"
    /\ last.out = <<"null">>
    /\ calls.sample >= 2
    /\ calls.update = 0
    /\ NotValid(heap[ResolveSetting(last.name)])

-----------------------------------------------------------------------------
(* C29 *)

\* The setting has a finite budget: it was constructed with a count above 0.
Finite(ts) == ts.count_ + ts.created_ > 0

\* created_ of every finite setting is the number of traces made from it.
C29_CreatedIsSessions ==
    \A id \in DOMAIN heap :
        Finite(heap[id]) => heap[id].created_ = tally[id].sessions

\* No call changes created_ + count_ of a setting, and a SampleTrace that
\* returns no trace leaves count_ as it was.
C29_Step ==
    /\ \A id \in DOMAIN heap \cap DOMAIN heap' :
          heap'[id].created_ + heap'[id].count_
              = heap[id].created_ + heap[id].count_
    /\ (calls'.sample = calls.sample + 1 /\ last'.out[1] # "trace")
          => \A id \in DOMAIN heap \cap DOMAIN heap' :
                Finite(heap[id]) => heap'[id].count_ = heap[id].count_

\* C29: for a setting with a finite count, created_ + count_ stays the
\* count it was constructed with, created_ is the number of traces made from
\* it, and a sampling call that makes no trace (the engine gave no handle)
\* takes nothing from count_.
C29_BudgetAccounting == [](C29_CreatedIsSessions) /\ [][C29_Step]_vars

-----------------------------------------------------------------------------
(* C27 *)

\* What GetTraceSetting reports of setting ts: level, rate, count,
\* log_frequency, filepath and mode.
Reported(ts) == [k \in 1..NumOutputs |-> ReadField(ts, k)]

\* A SampleTrace call leaves what is reported of every name as it was.
C27_Step ==
    calls'.sample = calls.sample + 1
    => \A n \in Names :
          Reported(heap'[ResolveIn(model_settings_', global_setting_', n)])
              = Reported(heap[ResolveSetting(n)])

\* C27: sampling changes nothing that GetTraceSetting reports: between two
\* updates every name keeps its level, rate, count, log_frequency, filepath
\* and mode, whatever number of SampleTrace calls is made.
C27_ConfigurationImmutable == [][C27_Step]_vars

-----------------------------------------------------------------------------
(* C28 *)

\* The text has a comma only between two tokens that are not commas.
SingleSeparators(text) ==
    \A j \in DOMAIN text :
        text[j] = Comma
        => /\ j > 1 /\ j < Len(text)
           /\ text[j - 1] # Comma
           /\ text[j + 1] # Comma

\* C28: trace_stream_ of every setting never starts or ends with a comma and
\* never has two commas in a row, whatever traces WriteTrace has added to
\* it, also a trace with no stream at all.
C28_SingleSeparators ==
    \A id \in DOMAIN heap : SingleSeparators(heap[id].trace_stream_)

-----------------------------------------------------------------------------
(* C25 *)

\* The indices of the indexed files of name file_name on the disk.
IndicesOf(file_name) ==
    {n[2] : n \in {m \in DOMAIN disk : m[1] = file_name /\ m[2] >= 0}}

\* One batch between its own pair of brackets.
Bracketed(text) ==
    /\ Len(text) >= 2
    /\ text[1] = LeftBracket
    /\ text[Len(text)] = RightBracket
    /\ \A j \in DOMAIN Inside(text) :
          Inside(text)[j] \notin {LeftBracket, RightBracket}

\* C25: the indexed files a TraceFile has written are those of the indices
\* 0, 1, ... up to the number of its flushes, one file for each flush, and
\* each of them holds one batch between its own pair of brackets.
C25_IndexedFiles ==
    \A f \in DOMAIN files :
        /\ IndicesOf(files[f].file_name_) = 0..(files[f].index_ - 1)
        /\ \A i \in IndicesOf(files[f].file_name_) :
              Bracketed(disk[IndexFile(files[f].file_name_, i)])

-----------------------------------------------------------------------------
(* C26 *)

\* Where token k stands in the streams of the settings of h and in the
\* files of disk dk.
Places(h, dk, k) ==
    UNION {{<<"stream", id, j>> :
               j \in {i \in DOMAIN h[id].trace_stream_ :
                         h[id].trace_stream_[i] = k}} : id \in DOMAIN h}
    \cup UNION {{<<"file", n, j>> :
                    j \in {i \in DOMAIN dk[n] : dk[n][i] = k}} : n \in DOMAIN dk}

\* The fragments of the traces collected so far that are still to be seen.
Batched ==
    {k \in UNION {TokensOf(heap[id].trace_stream_) : id \in DOMAIN heap}
           \cup UNION {TokensOf(disk[n]) : n \in DOMAIN disk} : IsFragment(k)}

\* The fragments the Trace destroyed in this step hands to WriteTrace.
HandedOver ==
    IF IsTeardown /\ heap[last'.out[2].setting_].mode_ = TRACE_MODE_TRITON
        THEN Fragments(last'.out[2].streams_)
        ELSE {}

\* After the step every fragment collected before it or in it stands in one
\* place: in the stream of a setting that is alive, or in one file.
C26_Step ==
    \A k \in Batched \cup HandedOver :
        Cardinality(Places(heap', disk', k)) = 1

\* C26: the text of a collected trace is kept once, in the stream of its
\* setting until that is flushed or the setting destroyed, and from then on
\* in one file: no step loses it or writes it a second time.
C26_NothingLostOrDuplicated == [][C26_Step]_vars

-----------------------------------------------------------------------------
(* C24 *)

\* In OpenTelemetry mode a Trace has had at most one span started, and none
\* before its first event.
C24_OneSpan ==
    \A tr \in traces :
        heap[tr.setting_].mode_ = TRACE_MODE_OPENTELEMETRY
        => /\ tr.spans_ <= 1
           /\ (tr.spans_ = 0) = (tr.trace_span_ = "null")

\* ~Trace ends the span if one was started, and no span if none was.
C24_Step ==
    (IsTeardown /\ heap[last'.out[2].setting_].mode_ = TRACE_MODE_OPENTELEMETRY)
    => (last'.out[1] = "span_ended") = (last'.out[2].spans_ >= 1)

\* C24: in OpenTelemetry mode, however TraceActivity and CaptureTimestamp
\* calls on one Trace interleave, InitSpan is called at most once for the
\* Trace, on its first event, and ~Trace ends the span if and only if one
\* was started.
C24_OneSpanPerTrace == [](C24_OneSpan) /\ [][C24_Step]_vars

-----------------------------------------------------------------------------
(* C21 *)

\* The store the constructor left: the default setting is never replaced.
InitialStore ==
    [gd |-> 1, g |-> 2, ms |-> <<>>, fb |-> {},
     tf |-> (files[heap[global_default_].file_].file_name_ :> 1),
     heap |-> (1 :> heap[global_default_]) @@ (2 :> heap[global_default_]),
     files |-> (1 :> files[heap[global_default_].file_]),
     disk |-> <<>>, err |-> ""]

RECURSIVE OneAfterAnother(_, _)
\* The store after the calls of q were made from store s, each returning
\* before the next is made.
OneAfterAnother(s, q) ==
    IF q = <<>> THEN s
    ELSE OneAfterAnother(
             Collect(UpdateResult(s, Head(q)[1], Head(q)[2],
                                  CHOOSE order \in Orders(s.fb) : TRUE), {}),
             Tail(q))

\* The calls of q in every order.
Orderings(q) ==
    {[i \in DOMAIN q |-> q[p[i]]] :
        p \in {f \in [DOMAIN q -> DOMAIN q] :
                  \A i, j \in DOMAIN q : f[i] = f[j] => i = j}}

\* What the store holds for its callers: the global setting, the setting of
\* each model that has one, and fallback_used_models_.
Visible(s) ==
    [g |-> [s.heap[s.g] EXCEPT !.file_ = s.files[@].file_name_],
     ms |-> [n \in DOMAIN s.ms |->
                [s.heap[s.ms[n]] EXCEPT !.file_ = s.files[@].file_name_]],
     fb |-> s.fb]

\* C21: when the UpdateTraceSetting calls two threads made at the same time
\* have all returned, the global setting, the settings of the models and
\* fallback_used_models_ are what the same calls leave when made one after
\* another in some order.
C21_UpdatesSerialized ==
    (\A t \in Threads : pc[t] = "idle")
    => \E q \in Orderings(calls.updates) :
          Visible(Store) = Visible(OneAfterAnother(InitialStore, q))

\* Two calls have returned whose order matters: made one after another in
\* the other order they leave another store.
C21_Witness ==
    /\ \A t \in Threads : pc[t] = "idle"
    /\ Len(calls.updates) = 2
    /\ Cardinality({Visible(OneAfterAnother(InitialStore, q)) :
                       q \in Orderings(calls.updates)}) = 2

-----------------------------------------------------------------------------
(* C22 *)

\* The step that thread t takes while it holds r_mu_ writes no file.
C22_Step ==
    \A t \in Threads :
        (HoldsR(t) /\ pc'[t] # pc[t]) => disk' = disk

\* C22: nothing is written to a file by a thread that holds r_mu_, also
\* when the assignment or the erase under r_mu_ lets go of a setting that
\* has traces in its stream.
C22_NoFileWriteUnderRMu == [][C22_Step]_vars

-----------------------------------------------------------------------------
(* C23 *)

====
